---- MODULE Spec2Model ----
(***************************************************************************)
(* Confirmation gating of tool calls (ConfirmationCallbackHandler in       *)
(* cli.py) and the interactive loop that drives it (AgentCLI.run).         *)
(*                                                                         *)
(* Python strings are modelled as sequences of one-character strings, so   *)
(* that strip(), split(), lower() and startswith() are computed and not    *)
(* assumed.  The callbacks of one handler instance are delivered by the    *)
(* agent framework from several worker threads; every read or write of a   *)
(* handler attribute is a separate step of the calling thread.             *)
(***************************************************************************)
EXTENDS Integers, Sequences, FiniteSets, TLC

(***************************************************************************)
(* Bounds                                                                  *)
(***************************************************************************)
NumThreads == 2

MaxCmdLen == 3

Threads == 1..NumThreads

(***************************************************************************)
(* Python string primitives                                                *)
(***************************************************************************)
UpperChars == <<"A", "B", "C", "D", "E", "F", "G", "H", "I", "J", "K", "L", "M", "N", "O", "P", "Q", "R", "S", "T", "U", "V", "W", "X", "Y", "Z">>

LowerChars == <<"a", "b", "c", "d", "e", "f", "g", "h", "i", "j", "k", "l", "m", "n", "o", "p", "q", "r", "s", "t", "u", "v", "w", "x", "y", "z">>

LowerChar(c) ==
    IF \E i \in 1..Len(UpperChars) : UpperChars[i] = c
    THEN LowerChars[CHOOSE i \in 1..Len(UpperChars) : UpperChars[i] = c]
    ELSE c

lower(s) == [i \in 1..Len(s) |-> LowerChar(s[i])]

IsSpace(c) == c \in {" ", "\t", "\n"}

RECURSIVE lstrip(_)
lstrip(s) ==
    IF s # <<>> /\ IsSpace(Head(s)) THEN lstrip(Tail(s)) ELSE s

RECURSIVE rstrip(_)
rstrip(s) ==
    IF s # <<>> /\ IsSpace(s[Len(s)]) THEN rstrip(SubSeq(s, 1, Len(s) - 1)) ELSE s

strip(s) == rstrip(lstrip(s))

\* str.split() without arguments: the maximal runs of non-whitespace
RECURSIVE SplitFrom(_, _, _)
SplitFrom(s, cur, acc) ==
    IF s = <<>>
    THEN IF cur = <<>> THEN acc ELSE Append(acc, cur)
    ELSE IF IsSpace(Head(s))
         THEN SplitFrom(Tail(s), <<>>, IF cur = <<>> THEN acc ELSE Append(acc, cur))
         ELSE SplitFrom(Tail(s), Append(cur, Head(s)), acc)

split(s) == SplitFrom(s, <<>>, <<>>)

startswith(s, p) == Len(p) <= Len(s) /\ SubSeq(s, 1, Len(p)) = p

\* Python "k in s" on strings
Contains(s, k) ==
    \E i \in 0..(Len(s) - Len(k)) : SubSeq(s, i + 1, i + Len(k)) = k

(***************************************************************************)
(* ConfirmationCallbackHandler: pure helpers                               *)
(***************************************************************************)
shell_keywords ==
    << <<"s", "h", "e", "l", "l">>, <<"t", "e", "r", "m", "i", "n", "a", "l">>, <<"c", "o", "m", "m", "a", "n", "d">>, <<"p", "o", "w", "e", "r", "s", "h", "e", "l", "l">>, <<"b", "a", "s", "h">>,
       <<"c", "m", "d">>, <<"r", "u", "n", "_">>, <<"e", "x", "e", "c", "u", "t", "e">>, <<"s", "y", "s", "t", "e", "m">>, <<"p", "y", "t", "h", "o", "n", "_", "i", "n", "f", "o">>,
       <<"g", "e", "t", "_", "s", "y", "s", "t", "e", "m">>, <<"g", "e", "t", "_", "p", "y", "t", "h", "o", "n">>, <<"i", "n", "s", "t", "a", "l", "l">>, <<"p", "i", "p">>, <<"n", "p", "m">>,
       <<"g", "i", "t">> >>

_is_shell_tool(tool_name) ==
    \E i \in 1..Len(shell_keywords) : Contains(lower(tool_name), shell_keywords[i])

\* variant of _is_safe_command without the prefix rule
_is_safe_command_NoPrefix(command, safe) ==
    /\ command # <<>>
    /\ LET base_cmd == IF strip(command) # <<>> THEN split(strip(command))[1] ELSE <<>>
       IN  \E i \in 1..Len(safe) : lower(base_cmd) = lower(safe[i])

_is_safe_command(command, safe) ==
    /\ command # <<>>
    /\ LET base_cmd == IF strip(command) # <<>> THEN split(strip(command))[1] ELSE <<>>
       IN  \E i \in 1..Len(safe) :
              \/ lower(base_cmd) = lower(safe[i])
              \/ startswith(lower(command), lower(safe[i]))

\* serialized.get('name', 'unknown')
ToolName(serialized) ==
    IF "name" \in DOMAIN serialized THEN serialized["name"] ELSE <<"u", "n", "k", "n", "o", "w", "n">>

\* variant that gates every tool as soon as one toggle is on
NeedsConfirmation_Either(is_shell, terminal, tools) ==
    terminal \/ tools

\* lines 200-203
NeedsConfirmation(is_shell, terminal, tools) ==
    (is_shell /\ terminal) \/ (~is_shell /\ tools)

\* variant that exempts only a command equal to a whitelist entry
WhitelistSkip_Exact(is_shell, enabled, actual_input, safe) ==
    is_shell /\ enabled /\ \E i \in 1..Len(safe) : actual_input = safe[i]

\* line 196: the whitelist exemption
WhitelistSkip(is_shell, enabled, actual_input, safe) ==
    is_shell /\ enabled /\ _is_safe_command(actual_input, safe)

\* lines 208-213: the entry appended to _pending_tools
PendingEntry(tool_name, actual_input, is_shell) ==
    [name |-> tool_name, input |-> actual_input,
     type |-> IF is_shell THEN "Terminal" ELSE "Tool"]

\* the structured payloads the framework hands over in this model
PayloadWithCommand == <<"{", "\"", "c", "o", "m", "m", "a", "n", "d", "\"", ":", " ", "\"", "r", "m", " ", "x", "\"", "}">>

PayloadWithoutCommand == <<"{", "\"", "p", "a", "t", "h", "\"", ":", " ", "\"", "x", "\"", "}">>

PayloadMalformed == <<"{", "p", "w", "d">>

\* json.loads on the payloads above; ok = FALSE stands for the exception
JsonLoads(text) ==
    IF text = PayloadWithCommand THEN [ok |-> TRUE, dict |-> [command |-> <<"r", "m", " ", "x">>]]
    ELSE IF text = PayloadWithoutCommand THEN [ok |-> TRUE, dict |-> [path |-> <<"x">>]]
    ELSE [ok |-> FALSE, dict |-> [none |-> <<>>]]

\* lines 185-193: the command that is shown to the human and whitelisted
ActualInput(input_str) ==
    IF startswith(strip(input_str), <<"{">>)
    THEN LET r == JsonLoads(input_str)
         IN  IF r.ok /\ "command" \in DOMAIN r.dict THEN r.dict["command"] ELSE input_str
    ELSE input_str

(***************************************************************************)
(* State                                                                   *)
(***************************************************************************)
VARIABLES
    confirm_terminal,     \* handler.confirm_terminal
    confirm_tools,        \* handler.confirm_tools
    safe_commands,        \* handler._safe_commands
    whitelist_enabled,    \* AGENT_CONFIG['whitelist_enabled']
    pending_tools,        \* handler._pending_tools
    user_approved,        \* handler._user_approved: "None", "True", "False"
    confirmation_shown,   \* handler._confirmation_shown
    showing_prompt,       \* handler._showing_prompt
    pc,                   \* position of each worker thread inside on_tool_start
    arrived,              \* history: gated requests appended since the last on_chain_end
    openers,              \* history: threads that took the opener branch since the last on_chain_end
    prompts,              \* history: prompts rendered since the last on_chain_end
    late,                 \* history: threads whose request was appended after a prompt of this batch
    stale,                \* history: threads whose call began before the last on_chain_end
    after_denial,         \* history: the last on_chain_end discarded a Denied decision
    consumed,             \* history: the last on_chain_end discarded a decision that had been made
    cli_pc,               \* AgentCLI.run: "input", "turn" or "exited"
    cli_out,              \* AgentCLI.run: what the loop printed last
    command,              \* _is_safe_command: argument
    safe_list,            \* _is_safe_command: whitelist it is evaluated against
    safe_result,          \* _is_safe_command: value returned
    chat_pc,              \* Agent.chat / chat_with_tool_display: position inside the method
    chat_method,          \* which of the two methods is running
    enable_memory,        \* Agent.enable_memory and Agent.memory_manager
    kwargs,               \* **kwargs of the running method, without its 'config' entry
    kwargs_config,        \* kwargs['config']: {} when the key is absent, {d} when it is d
    callbacks,            \* local callbacks: {} for None, {l} for the list l
    config,               \* local config (a dict)
    final_response,       \* local final_response: "None" or "text"
    invocations,          \* history: calls of self.agent.invoke / self.agent.stream made by the method
    response,             \* on_tool_start: local response of each thread, "" before its first read
    agent_config,         \* the dict AGENT_CONFIG, which the command closures hold as agent_config
    config_file,          \* the content of agent_config.json
    cli_confirm_terminal, \* AgentCLI.confirm_terminal
    cli_confirm_tools,    \* AgentCLI.confirm_tools
    settings_out,         \* kind of string the last //confirm or //whitelist command returned
    changed,              \* history: a //confirm or //whitelist command has changed the configuration
    list_log,             \* history: the last two successful //whitelist add / remove, with the list before each
    commands,             \* CommandRegistry.commands, in the order of the dict
    registrations,        \* history: the decorated functions add_command was called with
    dispatched,           \* history: {} or the arguments of the last execute_command
    last_dispatch,        \* history: what the last execute_command returned and called
    add_error,            \* history: the last add_command raised ValueError
    max_messages,         \* SimpleConversationMemory.max_messages
    history,              \* SimpleConversationMemory.history: session id -> list of entries
    got_history,          \* what the last get_history returned
    added                 \* history: per session, every entry added since it was last cleared

handlerVars == <<confirm_terminal, confirm_tools, safe_commands, whitelist_enabled,
                 pending_tools, user_approved, confirmation_shown, showing_prompt,
                 pc, arrived, openers, prompts, late, stale, after_denial, consumed>>

cliVars == <<cli_pc, cli_out>>

safeVars == <<command, safe_list, safe_result>>

chatVars == <<chat_pc, chat_method, enable_memory, kwargs, kwargs_config, callbacks,
              config, final_response, invocations>>

promptVars == <<response>>

settingsVars == <<agent_config, config_file, cli_confirm_terminal, cli_confirm_tools,
                  settings_out, changed, list_log>>

registryVars == <<commands, registrations, dispatched, last_dispatch, add_error>>

memoryVars == <<max_messages, history, got_history, added>>

extVars == <<chatVars, promptVars, settingsVars, registryVars, memoryVars>>

\* everything SimpleConversationMemory leaves alone
outsideMemory == <<handlerVars, cliVars, safeVars, chatVars, promptVars, settingsVars,
                   registryVars>>

\* everything Agent.chat and Agent.chat_with_tool_display leave alone
outsideChat == <<handlerVars, cliVars, safeVars, promptVars, settingsVars, registryVars,
                 memoryVars>>

\* everything CommandRegistry leaves alone
outsideRegistry == <<handlerVars, cliVars, safeVars, chatVars, promptVars, settingsVars,
                     memoryVars>>

vars == <<handlerVars, cliVars, safeVars, extVars>>

batchVars == <<pending_tools, user_approved, confirmation_shown, showing_prompt>>

historyVars == <<arrived, openers, prompts, late, stale, after_denial, consumed>>

configVars == <<confirm_terminal, confirm_tools, safe_commands, whitelist_enabled>>

(***************************************************************************)
(* Inputs                                                                  *)
(***************************************************************************)
\* the (serialized, input_str) arguments on_tool_start is called with
Calls ==
    { [serialized |-> [name |-> <<"B", "a", "s", "h">>], input_str |-> <<"p", "w", "d", " ", "-", "P">>],
      [serialized |-> [id |-> <<"7">>],      input_str |-> PayloadWithCommand] }

\* the lines the human types at the confirmation prompt
AnswerLines == { <<" ", "Y", "e", "s", " ">>, <<"y">>, <<"N", "O">>, <<"n", "\t">>, <<"m", "a", "y", "b", "e">> }

InFlight == { "check_showing", "check_shown", "lock", "sleep", "render", "input",
              "wait", "decide" }

\* "passed": returned without gating; "returned": returned after approval;
\* "raised": left by raise KeyboardInterrupt
Finished == { "passed", "returned", "raised" }

(***************************************************************************)
(* Initial state: a freshly constructed handler (lines 142-151)            *)
(***************************************************************************)
HandlerInit ==
    /\ confirm_terminal \in BOOLEAN
    /\ confirm_tools \in BOOLEAN
    /\ whitelist_enabled \in BOOLEAN
    /\ safe_commands = << <<"p", "w", "d">> >>
    /\ pending_tools = <<>>
    /\ user_approved = "None"
    /\ confirmation_shown = FALSE
    /\ showing_prompt = FALSE
    /\ pc = [t \in Threads |-> "idle"]
    /\ arrived = <<>>
    /\ openers = {}
    /\ prompts = <<>>
    /\ late = {}
    /\ stale = {}
    /\ after_denial = FALSE
    /\ consumed = FALSE

CliInit ==
    /\ cli_pc = "input"
    /\ cli_out = "banner"

SafeIdle ==
    /\ command = <<>>
    /\ safe_list = <<>>
    /\ safe_result = "None"

\* no call of Agent.chat or Agent.chat_with_tool_display is running
ChatIdle ==
    /\ chat_pc = "idle"
    /\ chat_method = "none"
    /\ enable_memory = FALSE
    /\ kwargs = <<>>
    /\ kwargs_config = {}
    /\ callbacks = {}
    /\ config = <<>>
    /\ final_response = "None"
    /\ invocations = <<>>

PromptIdle == response = [t \in Threads |-> <<>>]

\* the configuration commands are not modelled: no configuration is held
SettingsIdle ==
    /\ agent_config = <<>>
    /\ config_file = <<>>
    /\ cli_confirm_terminal = FALSE
    /\ cli_confirm_tools = FALSE
    /\ settings_out = "none"
    /\ changed = FALSE
    /\ list_log = <<>>

\* no CommandRegistry is modelled
RegistryIdle ==
    /\ commands = <<>>
    /\ registrations = <<>>
    /\ dispatched = {}
    /\ last_dispatch = [returned |-> TRUE, text |-> <<>>, calls |-> <<>>]
    /\ add_error = FALSE

\* no SimpleConversationMemory is modelled
MemoryIdle ==
    /\ max_messages = 20
    /\ history = <<>>
    /\ got_history = <<>>
    /\ added = <<>>

ExtIdle == ChatIdle /\ PromptIdle /\ SettingsIdle /\ RegistryIdle /\ MemoryIdle

Init == HandlerInit /\ CliInit /\ SafeIdle /\ ExtIdle

(***************************************************************************)
(* on_tool_start, one step per access to the shared handler attributes     *)
(***************************************************************************)
\* lines 180-213: classification, whitelist, needs_confirmation, append
ToolStart(t, serialized, input_str) ==
    /\ pc[t] = "idle"
    /\ LET tool_name == ToolName(serialized)
           is_shell == _is_shell_tool(tool_name)
           actual_input == ActualInput(input_str)
       IN  IF WhitelistSkip(is_shell, whitelist_enabled, actual_input, safe_commands)
           THEN /\ pc' = [pc EXCEPT ![t] = "passed"]
                /\ UNCHANGED <<pending_tools, arrived, late>>
           ELSE IF ~NeedsConfirmation(is_shell, confirm_terminal, confirm_tools)
           THEN /\ pc' = [pc EXCEPT ![t] = "passed"]
                /\ UNCHANGED <<pending_tools, arrived, late>>
           ELSE /\ pending_tools' =
                       Append(pending_tools, PendingEntry(tool_name, actual_input, is_shell))
                /\ arrived' =
                       Append(arrived, PendingEntry(tool_name, actual_input, is_shell))
                /\ late' = IF \E i \in 1..Len(prompts) : prompts[i].by \notin stale
                           THEN late \cup {t} ELSE late
                /\ pc' = [pc EXCEPT ![t] = "check_showing"]
    /\ UNCHANGED <<configVars, user_approved, confirmation_shown, showing_prompt,
                   openers, prompts, stale, after_denial, consumed>>
    /\ UNCHANGED <<cliVars, safeVars, extVars>>

\* line 216, first operand: read of _showing_prompt
CheckShowing(t) ==
    /\ pc[t] = "check_showing"
    /\ pc' = [pc EXCEPT ![t] = IF showing_prompt THEN "wait" ELSE "check_shown"]
    /\ UNCHANGED <<configVars, batchVars, historyVars>>
    /\ UNCHANGED <<cliVars, safeVars, extVars>>

\* line 216, second operand: read of _confirmation_shown
CheckShown(t) ==
    /\ pc[t] = "check_shown"
    /\ pc' = [pc EXCEPT ![t] = IF confirmation_shown THEN "wait" ELSE "lock"]
    /\ UNCHANGED <<configVars, batchVars, historyVars>>
    /\ UNCHANGED <<cliVars, safeVars, extVars>>

\* line 217: the opener sets _showing_prompt
Lock(t) ==
    /\ pc[t] = "lock"
    /\ showing_prompt' = TRUE
    /\ openers' = openers \cup {t}
    /\ pc' = [pc EXCEPT ![t] = "sleep"]
    /\ UNCHANGED <<configVars, pending_tools, user_approved, confirmation_shown,
                   arrived, prompts, late, stale, after_denial, consumed>>
    /\ UNCHANGED <<cliVars, safeVars, extVars>>

\* lines 220-223: the grace period ends, _confirmation_shown is set
Sleep(t) ==
    /\ pc[t] = "sleep"
    /\ confirmation_shown' = TRUE
    /\ pc' = [pc EXCEPT ![t] = "render"]
    /\ UNCHANGED <<configVars, pending_tools, user_approved, showing_prompt,
                   historyVars>>
    /\ UNCHANGED <<cliVars, safeVars, extVars>>

\* variant that lists only the first pending tool
RenderedTools_FirstOnly(pending) == SubSeq(pending, 1, 1)

\* what lines 241-249 / 271-278 print: one numbered entry per pending tool
RenderedTools(pending) == pending

\* lines 225-252 / 269-279: the prompt is printed
Render(t) ==
    /\ pc[t] = "render"
    /\ prompts' = Append(prompts, [by |-> t, tools |-> RenderedTools(pending_tools),
                                   seen |-> Len(arrived)])
    /\ pc' = [pc EXCEPT ![t] = "input"]
    /\ UNCHANGED <<configVars, batchVars, arrived, openers, late, stale, after_denial, consumed>>
    /\ UNCHANGED <<cliVars, safeVars, extVars>>

Yes == { <<"y", "e", "s">>, <<"y">> }

No == { <<"n", "o">>, <<"n">> }

\* lines 253-266 / 281-293: one pass of the while True loop on the answer r =
\* input(...).strip().lower(); any other answer prints the hint and reads again
AnswerLoop(t, r) ==
    /\ pc[t] = "input"
    /\ IF r \in Yes
       THEN /\ user_approved' = "True"
            /\ pc' = [pc EXCEPT ![t] = "returned"]
       ELSE IF r \in No
       THEN /\ user_approved' = "False"
            /\ pc' = [pc EXCEPT ![t] = "raised"]
       ELSE UNCHANGED <<user_approved, pc>>
    /\ UNCHANGED <<configVars, pending_tools, confirmation_shown, showing_prompt,
                   historyVars>>

ReadAnswer(t, line) ==
    /\ AnswerLoop(t, lower(strip(line)))
    /\ UNCHANGED <<cliVars, safeVars, extVars>>

\* the same pass, with the local variable response of the calling thread kept
PromptRead(t, line) ==
    /\ AnswerLoop(t, lower(strip(line)))
    /\ response' = [response EXCEPT ![t] = lower(strip(line))]
    /\ UNCHANGED <<cliVars, safeVars, chatVars, settingsVars, registryVars, memoryVars>>

\* lines 297-298: the polling loop is left once _user_approved is not None
Wait(t) ==
    /\ pc[t] = "wait"
    /\ user_approved # "None"
    /\ pc' = [pc EXCEPT ![t] = "decide"]
    /\ UNCHANGED <<configVars, batchVars, historyVars>>
    /\ UNCHANGED <<cliVars, safeVars, extVars>>

\* lines 300-301: second read of _user_approved
Decide(t) ==
    /\ pc[t] = "decide"
    /\ pc' = [pc EXCEPT ![t] = IF user_approved = "False" THEN "raised" ELSE "returned"]
    /\ UNCHANGED <<configVars, batchVars, historyVars>>
    /\ UNCHANGED <<cliVars, safeVars, extVars>>

\* variant that leaves _confirmation_shown as it is
on_chain_end_KeepsShown ==
    /\ pending_tools' = <<>>
    /\ user_approved' = "None"
    /\ showing_prompt' = FALSE
    /\ arrived' = <<>>
    /\ openers' = {}
    /\ prompts' = <<>>
    /\ late' = {}
    /\ stale' = { t \in Threads : pc[t] \in InFlight }
    /\ after_denial' = (user_approved = "False")
    /\ consumed' = (user_approved # "None")
    /\ pc' = [t \in Threads |-> IF pc[t] \in Finished THEN "idle" ELSE pc[t]]
    /\ UNCHANGED <<configVars, confirmation_shown>>
    /\ UNCHANGED <<cliVars, safeVars, extVars>>

\* lines 303-308; the histories restart, finished calls are forgotten
on_chain_end ==
    /\ pending_tools' = <<>>
    /\ confirmation_shown' = FALSE
    /\ user_approved' = "None"
    /\ showing_prompt' = FALSE
    /\ arrived' = <<>>
    /\ openers' = {}
    /\ prompts' = <<>>
    /\ late' = {}
    /\ stale' = { t \in Threads : pc[t] \in InFlight }
    /\ after_denial' = (user_approved = "False")
    /\ consumed' = (user_approved # "None")
    /\ pc' = [t \in Threads |-> IF pc[t] \in Finished THEN "idle" ELSE pc[t]]
    /\ UNCHANGED configVars
    /\ UNCHANGED <<cliVars, safeVars, extVars>>



\* the handler driven by any framework: callbacks arrive in any order
Next ==
    \/ \E t \in Threads, c \in Calls : ToolStart(t, c.serialized, c.input_str)
    \/ \E t \in Threads : CheckShowing(t)
    \/ \E t \in Threads : CheckShown(t)
    \/ \E t \in Threads : Lock(t)
    \/ \E t \in Threads : Sleep(t)
    \/ \E t \in Threads : Render(t)
    \/ \E t \in Threads, line \in AnswerLines : ReadAnswer(t, line)
    \/ \E t \in Threads : Wait(t)
    \/ \E t \in Threads : Decide(t)
    \/ on_chain_end

Spec == Init /\ [][Next]_vars

\* the steps a worker thread takes on its own: every thread that can run does
\* run; nothing obliges the framework to deliver a callback or the human to type
ThreadStep(t) ==
    \/ CheckShowing(t)
    \/ CheckShown(t)
    \/ Lock(t)
    \/ Sleep(t)
    \/ Render(t)
    \/ Wait(t)
    \/ Decide(t)

SpecFair == Spec /\ \A t \in Threads : WF_vars(ThreadStep(t))

\* one turn of the handler, up to on_chain_end, with the answers read kept
NextPrompt ==
    \/ \E t \in Threads, c \in Calls : ToolStart(t, c.serialized, c.input_str)
    \/ \E t \in Threads : CheckShowing(t)
    \/ \E t \in Threads : CheckShown(t)
    \/ \E t \in Threads : Lock(t)
    \/ \E t \in Threads : Sleep(t)
    \/ \E t \in Threads : Render(t)
    \/ \E t \in Threads, line \in AnswerLines : PromptRead(t, line)
    \/ \E t \in Threads : Wait(t)
    \/ \E t \in Threads : Decide(t)

SpecPrompt == Init /\ [][NextPrompt]_vars

(***************************************************************************)
(* AgentCLI.run (lines 706-762): the input loop around one agent turn      *)
(***************************************************************************)
InputKinds == { "empty", "command", "exit", "clear", "chat", "ctrl_c" }

\* lines 709-728, and 758-760 for Ctrl-C at the prompt
GetInput(kind) ==
    /\ cli_pc = "input"
    /\ CASE kind = "command" -> cli_out' = "result" /\ cli_pc' = cli_pc
         [] kind = "exit"    -> cli_out' = "goodbye" /\ cli_pc' = "exited"
         [] kind = "ctrl_c"  -> cli_out' = "goodbye" /\ cli_pc' = "exited"
         [] kind = "chat"    -> cli_out' = cli_out /\ cli_pc' = "turn"
         [] OTHER            -> UNCHANGED <<cli_out, cli_pc>>
    /\ UNCHANGED <<handlerVars, safeVars, extVars>>

\* lines 731-737: the agent runs; its tool calls pass through on_tool_start
InTurn == cli_pc = "turn"

\* on_chain_end is delivered for runs that end without an exception
TurnChainEnd ==
    /\ cli_pc = "turn"
    /\ \A t \in Threads : pc[t] # "raised"
    /\ on_chain_end

\* lines 738-756: chat_with_tool_display returned, the response is printed
TurnReturn ==
    /\ cli_pc = "turn"
    /\ \A t \in Threads : pc[t] = "idle"
    /\ cli_out' = "response"
    /\ cli_pc' = "input"
    /\ UNCHANGED <<handlerVars, safeVars, extVars>>

\* lines 758-760: KeyboardInterrupt leaves chat_with_tool_display
TurnInterrupted ==
    /\ cli_pc = "turn"
    /\ \E t \in Threads : pc[t] = "raised"
    /\ \A t \in Threads : pc[t] \notin InFlight
    /\ cli_out' = "goodbye"
    /\ cli_pc' = "exited"
    /\ UNCHANGED <<handlerVars, safeVars, extVars>>

\* lines 761-762: any other exception is printed and the loop goes on
TurnError ==
    /\ cli_pc = "turn"
    /\ \A t \in Threads : pc[t] = "idle"
    /\ cli_out' = "error"
    /\ cli_pc' = "input"
    /\ UNCHANGED <<handlerVars, safeVars, extVars>>

NextCLI ==
    \/ \E kind \in InputKinds : GetInput(kind)
    \/ \E t \in Threads, c \in Calls : InTurn /\ ToolStart(t, c.serialized, c.input_str)
    \/ \E t \in Threads : InTurn /\ CheckShowing(t)
    \/ \E t \in Threads : InTurn /\ CheckShown(t)
    \/ \E t \in Threads : InTurn /\ Lock(t)
    \/ \E t \in Threads : InTurn /\ Sleep(t)
    \/ \E t \in Threads : InTurn /\ Render(t)
    \/ \E t \in Threads, line \in AnswerLines : InTurn /\ ReadAnswer(t, line)
    \/ \E t \in Threads : InTurn /\ Wait(t)
    \/ \E t \in Threads : InTurn /\ Decide(t)
    \/ TurnChainEnd
    \/ TurnReturn
    \/ TurnInterrupted
    \/ TurnError

SpecCLI == Init /\ [][NextCLI]_vars

(***************************************************************************)
(* _is_safe_command applied to bounded commands and whitelists             *)
(***************************************************************************)
MaxListLen == 2

BoundedSeq(S, n) == UNION { [1..k -> S] : k \in 0..n }

SafeAlphabet == { "p", "P", "w", " " }

SafeCommands ==
    BoundedSeq(SafeAlphabet, MaxCmdLen) \cup { <<"p", "w", "d">>, <<"p", "w", "d", " ", "-", "P">>, <<"r", "m", " ", "p", "w", "d", ".", "t", "x", "t">> }

SafeEntries == { <<"p", "w", "d">>, <<"p">>, <<"P", "w">>, <<"p", " ", "w">> }

SafeLists == BoundedSeq(SafeEntries, MaxListLen)

InitSafe ==
    /\ HandlerInit
    /\ confirm_terminal /\ confirm_tools /\ whitelist_enabled
    /\ CliInit
    /\ ExtIdle
    /\ command \in SafeCommands
    /\ safe_list \in SafeLists
    /\ safe_result = "None"

CheckSafe ==
    /\ safe_result = "None"
    /\ safe_result' = IF _is_safe_command(command, safe_list) THEN "True" ELSE "False"
    /\ UNCHANGED <<handlerVars, cliVars, command, safe_list, extVars>>

NextSafe == CheckSafe

SpecSafe == InitSafe /\ [][NextSafe]_vars

(***************************************************************************)
(* Agent.chat and Agent.chat_with_tool_display (base.py)                   *)
(*                                                                         *)
(* A Python dict is a function whose domain is its set of keys.            *)
(***************************************************************************)
EmptyDict == <<>>

\* d.pop(key): the dict without the key
DictWithout(d, key) == [k \in (DOMAIN d) \ {key} |-> d[k]]

\* d[key] = value
DictSet(d, key, value) ==
    [k \in (DOMAIN d) \cup {key} |-> IF k = key THEN value ELSE d[k]]

\* the callbacks= argument: absent, an empty list, or the list AgentCLI.run passes
CallbackArgs == { {}, { <<>> }, { <<"confirmation_handler">> } }

\* the config= argument: absent, an empty dict, or a dict with entries of its own
ConfigArgs ==
    { {}, { EmptyDict }, { [k \in {"tags"} |-> <<"cli">>] },
      { [k \in {"callbacks"} |-> <<"tracer">>] } }

\* further keyword arguments
OtherArgs == { EmptyDict, [k \in {"debug"} |-> <<"on">>] }

\* entry into chat (line 488) or chat_with_tool_display (line 585)
ChatCall(method, cbs, cfg, other, memory) ==
    /\ chat_pc \in {"idle", "returned"}
    /\ chat_pc' = "entered"
    /\ chat_method' = method
    /\ enable_memory' = memory
    /\ kwargs' = IF cbs = {} THEN other
                 ELSE DictSet(other, "callbacks", CHOOSE l \in cbs : TRUE)
    /\ kwargs_config' = cfg
    /\ callbacks' = {}
    /\ config' = EmptyDict
    /\ final_response' = "None"
    /\ invocations' = <<>>
    /\ UNCHANGED outsideChat

\* callbacks = kwargs.pop('callbacks', None); config = kwargs.pop('config', {});
\* if callbacks: config['callbacks'] = callbacks
ExtractCallbacks ==
    /\ chat_pc = "entered"
    /\ LET popped == IF "callbacks" \in DOMAIN kwargs THEN { kwargs["callbacks"] } ELSE {}
           cfg    == IF kwargs_config = {} THEN EmptyDict
                     ELSE CHOOSE d \in kwargs_config : TRUE
           truthy == popped # {} /\ popped # { <<>> }
       IN  /\ callbacks' = popped
           /\ kwargs' = DictWithout(kwargs, "callbacks")
           /\ kwargs_config' = {}
           /\ config' = IF truthy
                        THEN DictSet(cfg, "callbacks", CHOOSE l \in popped : TRUE)
                        ELSE cfg
    /\ chat_pc' = "extracted"
    /\ UNCHANGED <<chat_method, enable_memory, final_response, invocations>>
    /\ UNCHANGED outsideChat

\* config=config if config else None
ConfigOrNone(cfg) == IF cfg = EmptyDict THEN {} ELSE { cfg }

\* chat: self.agent.invoke(..., config=config if config else None)
ChatInvoke ==
    /\ chat_pc = "extracted"
    /\ chat_method = "chat"
    /\ invocations' = Append(invocations,
           [via |-> "invoke", config |-> ConfigOrNone(config), kwargs |-> EmptyDict])
    /\ final_response' = "text"
    /\ chat_pc' = "returned"
    /\ UNCHANGED <<chat_method, enable_memory, kwargs, kwargs_config, callbacks, config>>
    /\ UNCHANGED outsideChat

\* chat_with_tool_display: the loop over self.agent.stream(..., stream_mode="updates",
\* config=...); the events may or may not hold an AIMessage with content
Stream(outcome) ==
    /\ chat_pc = "extracted"
    /\ chat_method = "chat_with_tool_display"
    /\ invocations' = Append(invocations,
           [via |-> "stream", config |-> ConfigOrNone(config), kwargs |-> EmptyDict])
    /\ final_response' = outcome
    /\ chat_pc' = "streamed"
    /\ UNCHANGED <<chat_method, enable_memory, kwargs, kwargs_config, callbacks, config>>
    /\ UNCHANGED outsideChat

\* what the fallback hands to self.agent.invoke as its config: nothing, the call
\* is self.agent.invoke({...}, **kwargs) and 'config' was popped from kwargs
FallbackConfig(cfg) == {}

\* if final_response is None: response = self.agent.invoke({...}, **kwargs)
FallbackInvoke(outcome) ==
    /\ chat_pc = "streamed"
    /\ final_response = "None"
    /\ invocations' = Append(invocations,
           [via |-> "invoke", config |-> FallbackConfig(config), kwargs |-> kwargs])
    /\ final_response' = outcome
    /\ chat_pc' = "fell_back"
    /\ UNCHANGED <<chat_method, enable_memory, kwargs, kwargs_config, callbacks, config>>
    /\ UNCHANGED outsideChat

\* return {"response": final_response or "", "tool_calls": tool_calls}
DisplayReturn ==
    /\ \/ chat_pc = "streamed" /\ final_response # "None"
       \/ chat_pc = "fell_back"
    /\ chat_pc' = "returned"
    /\ UNCHANGED <<chat_method, enable_memory, kwargs, kwargs_config, callbacks, config,
                   final_response, invocations>>
    /\ UNCHANGED outsideChat

NextChat ==
    \/ \E method \in {"chat", "chat_with_tool_display"}, cbs \in CallbackArgs,
          cfg \in ConfigArgs, other \in OtherArgs, memory \in BOOLEAN :
          ChatCall(method, cbs, cfg, other, memory)
    \/ ExtractCallbacks
    \/ ChatInvoke
    \/ \E outcome \in {"None", "text"} : Stream(outcome)
    \/ \E outcome \in {"None", "text"} : FallbackInvoke(outcome)
    \/ DisplayReturn

SpecChat == Init /\ [][NextChat]_vars

(***************************************************************************)
(* Configuration: load_config, save_config (cli.py), the //confirm and     *)
(* //whitelist commands (commands.py) and update_confirmation_settings     *)
(***************************************************************************)
\* x in l
InList(x, l) == \E i \in 1..Len(l) : l[i] = x

\* d.get(key, default)
Get(d, key, default) == IF key \in DOMAIN d THEN d[key] ELSE default

\* the list load_config adds when the file has no 'safe_commands'
DefaultSafeCommands ==
    << <<"d", "a", "t", "e">>, <<"G", "e", "t", "-", "D", "a", "t", "e">>, <<"t", "i", "m", "e">>, <<"p", "w", "d">>, <<"G", "e", "t", "-", "L", "o", "c", "a", "t", "i", "o", "n">>,
       <<"l", "s">>, <<"d", "i", "r">>, <<"G", "e", "t", "-", "C", "h", "i", "l", "d", "I", "t", "e", "m">>, <<"w", "h", "o", "a", "m", "i">>, <<"h", "o", "s", "t", "n", "a", "m", "e">>,
       <<"e", "c", "h", "o">>, <<"W", "r", "i", "t", "e", "-", "O", "u", "t", "p", "u", "t">>, <<"c", "a", "t">>, <<"G", "e", "t", "-", "C", "o", "n", "t", "e", "n", "t">>,
       <<"e", "n", "v">>, <<"G", "e", "t", "-", "V", "a", "r", "i", "a", "b", "l", "e">>, <<"p", "y", "t", "h", "o", "n", " ", "-", "-", "v", "e", "r", "s", "i", "o", "n">>, <<"n", "o", "d", "e", " ", "-", "-", "v", "e", "r", "s", "i", "o", "n">> >>

load_config(file) ==
    LET with_safe == IF "safe_commands" \in DOMAIN file THEN file
                     ELSE DictSet(file, "safe_commands", DefaultSafeCommands)
    IN  IF "whitelist_enabled" \in DOMAIN with_safe THEN with_safe
        ELSE DictSet(with_safe, "whitelist_enabled", TRUE)

\* the dicts of booleans over a subset of the keys
ToggleDicts(keys) == UNION { [ks -> BOOLEAN] : ks \in SUBSET keys }

\* contents of agent_config.json at start-up
ConfigFiles ==
    { [k \in (DOMAIN toggles) \cup (DOMAIN lists) |->
          IF k \in DOMAIN toggles THEN toggles[k] ELSE lists[k]] :
      toggles \in ToggleDicts({"confirm_terminal", "confirm_tools", "whitelist_enabled"}),
      lists \in { EmptyDict, [k \in {"safe_commands"} |-> <<>>],
                  [k \in {"safe_commands"} |-> << <<"p", "w", "d">> >>] } }

\* AGENT_CONFIG = load_config() (line 98), AgentCLI.__init__ (lines 534-535, 563-567)
\* and ConfirmationCallbackHandler.__init__ (lines 142-151)
InitSettings ==
    /\ config_file \in ConfigFiles
    /\ agent_config = load_config(config_file)
    /\ cli_confirm_terminal = Get(agent_config, "confirm_terminal", FALSE)
    /\ cli_confirm_tools = Get(agent_config, "confirm_tools", FALSE)
    /\ settings_out = "none"
    /\ changed = FALSE
    /\ list_log = <<>>
    /\ confirm_terminal = cli_confirm_terminal
    /\ confirm_tools = cli_confirm_tools
    /\ whitelist_enabled = Get(agent_config, "whitelist_enabled", TRUE)
    /\ safe_commands = Get(agent_config, "safe_commands", <<>>)
    /\ pending_tools = <<>>
    /\ user_approved = "None"
    /\ confirmation_shown = FALSE
    /\ showing_prompt = FALSE
    /\ pc = [t \in Threads |-> "idle"]
    /\ arrived = <<>>
    /\ openers = {}
    /\ prompts = <<>>
    /\ late = {}
    /\ stale = {}
    /\ after_denial = FALSE
    /\ consumed = FALSE
    /\ CliInit
    /\ SafeIdle
    /\ ChatIdle
    /\ PromptIdle
    /\ RegistryIdle
    /\ MemoryIdle

\* update_confirmation_settings (variant: the attributes are set, the handler is kept)
update_confirmation_settings_KeepHandler(terminal, tools, config_after) ==
    /\ cli_confirm_terminal' =
           IF terminal = {} THEN cli_confirm_terminal ELSE CHOOSE b \in terminal : TRUE
    /\ cli_confirm_tools' =
           IF tools = {} THEN cli_confirm_tools ELSE CHOOSE b \in tools : TRUE
    /\ UNCHANGED <<confirm_terminal, confirm_tools, safe_commands, batchVars>>

\* update_confirmation_settings(confirm_terminal=.., confirm_tools=..): an argument
\* is {} for None and {b} for the value b; the handler is constructed anew
\* (lines 142-151) while the configuration is config_after
update_confirmation_settings(terminal, tools, config_after) ==
    /\ cli_confirm_terminal' =
           IF terminal = {} THEN cli_confirm_terminal ELSE CHOOSE b \in terminal : TRUE
    /\ cli_confirm_tools' =
           IF tools = {} THEN cli_confirm_tools ELSE CHOOSE b \in tools : TRUE
    /\ confirm_terminal' = cli_confirm_terminal'
    /\ confirm_tools' = cli_confirm_tools'
    /\ safe_commands' = Get(config_after, "safe_commands", <<>>)
    /\ pending_tools' = <<>>
    /\ user_approved' = "None"
    /\ confirmation_shown' = FALSE
    /\ showing_prompt' = FALSE

\* agent_config.get(key): {} for None
GetOrNone(d, key) == IF key \in DOMAIN d THEN { d[key] } ELSE {}

\* the words //confirm is called with; "" stands for an argument that is not given
ConfirmTargets == { <<>>, <<"t", "e", "r", "m", "i", "n", "a", "l">>, <<"T", "o", "o", "l", "s">>, <<"s", "h", "e", "l", "l">> }

ConfirmStates == { <<>>, <<"o", "n">>, <<"O", "F", "F">>, <<"y", "e", "s">> }

\* confirm_cmd(target, state), lines 726-795
confirm_cmd(target, state) ==
    /\ cli_pc = "input"
    /\ IF target = <<>>
       THEN /\ settings_out' = "status"
            /\ UNCHANGED <<agent_config, config_file, cli_confirm_terminal,
                           cli_confirm_tools, changed, configVars, batchVars>>
       ELSE IF \/ lower(target) \notin { <<"t", "e", "r", "m", "i", "n", "a", "l">>, <<"t", "o", "o", "l", "s">> }
               \/ state = <<>>
               \/ lower(state) \notin { <<"o", "n">>, <<"o", "f", "f">> }
       THEN /\ settings_out' = "error"
            /\ UNCHANGED <<agent_config, config_file, cli_confirm_terminal,
                           cli_confirm_tools, changed, configVars, batchVars>>
       ELSE LET is_on == lower(state) = <<"o", "n">>
                key   == IF lower(target) = <<"t", "e", "r", "m", "i", "n", "a", "l">> THEN "confirm_terminal"
                         ELSE "confirm_tools"
                after == DictSet(agent_config, key, is_on)
            IN  /\ agent_config' = after
                /\ config_file' = after
                /\ update_confirmation_settings(GetOrNone(after, "confirm_terminal"),
                                                GetOrNone(after, "confirm_tools"), after)
                /\ settings_out' = "saved"
                /\ changed' = TRUE
                /\ UNCHANGED whitelist_enabled
    /\ UNCHANGED <<list_log, pc, historyVars, cliVars, safeVars, chatVars, promptVars,
                   registryVars, memoryVars>>

\* variant that removes the first entry, whatever it is
ListRemove_Head(l, x) == Tail(l)

\* list.remove(x): the list without its first x
RECURSIVE ListRemove(_, _)
ListRemove(l, x) ==
    IF l = <<>> THEN <<>>
    ELSE IF Head(l) = x THEN Tail(l)
    ELSE <<Head(l)>> \o ListRemove(Tail(l), x)

\* the log with one more entry, cut to its last two
Logged(log, entry) ==
    LET all == Append(log, entry)
    IN  IF Len(all) > 2 THEN Tail(all) ELSE all

\* the words //whitelist is called with
WhitelistActions == { <<"o", "n">>, <<"O", "f", "f">>, <<"l", "i", "s", "t">>, <<"a", "d", "d">>, <<"R", "E", "M", "O", "V", "E">>, <<"c", "l", "e", "a", "r">> }

WhitelistCommands == { <<>>, <<"p", "w", "d">>, <<"l", "s">> }

\* whitelist_cmd(action, command), lines 799-889; AGENT_CONFIG is agent_config
\* (cli.py line 420), so line 196 of on_tool_start reads the entry written here
whitelist_cmd(action, cmd) ==
    /\ cli_pc = "input"
    /\ LET listed == Get(agent_config, "safe_commands", <<>>)
       IN  IF lower(action) \in { <<"o", "n">>, <<"o", "f", "f">> }
           THEN LET after == DictSet(agent_config, "whitelist_enabled",
                                     lower(action) = <<"o", "n">>)
                IN  /\ agent_config' = after
                    /\ config_file' = after
                    /\ whitelist_enabled' = Get(after, "whitelist_enabled", TRUE)
                    /\ settings_out' = "saved"
                    /\ changed' = TRUE
                    /\ UNCHANGED <<safe_commands, list_log>>
           ELSE IF lower(action) = <<"l", "i", "s", "t">>
           THEN /\ settings_out' = "listed"
                /\ UNCHANGED <<agent_config, config_file, whitelist_enabled,
                               safe_commands, changed, list_log>>
           ELSE IF lower(action) \in { <<"a", "d", "d">>, <<"r", "e", "m", "o", "v", "e">> }
           THEN IF \/ cmd = <<>>
                   \/ lower(action) = <<"a", "d", "d">> /\ InList(cmd, listed)
                   \/ lower(action) = <<"r", "e", "m", "o", "v", "e">> /\ ~InList(cmd, listed)
                THEN /\ settings_out' = "error"
                     /\ UNCHANGED <<agent_config, config_file, whitelist_enabled,
                                    safe_commands, changed, list_log>>
                ELSE LET new_list == IF lower(action) = <<"a", "d", "d">> THEN Append(listed, cmd)
                                     ELSE ListRemove(listed, cmd)
                         after == DictSet(agent_config, "safe_commands", new_list)
                     IN  /\ agent_config' = after
                         /\ config_file' = after
                         /\ safe_commands' = new_list
                         /\ settings_out' = "saved"
                         /\ changed' = TRUE
                         /\ list_log' = Logged(list_log, [op |-> lower(action), cmd |-> cmd,
                                                          before |-> listed])
                         /\ UNCHANGED whitelist_enabled
           ELSE /\ settings_out' = "error"
                /\ UNCHANGED <<agent_config, config_file, whitelist_enabled,
                               safe_commands, changed, list_log>>
    /\ UNCHANGED <<confirm_terminal, confirm_tools, batchVars, cli_confirm_terminal,
                   cli_confirm_tools>>
    /\ UNCHANGED <<pc, historyVars, cliVars, safeVars, chatVars, promptVars, registryVars,
                   memoryVars>>

NextSettings ==
    \/ \E target \in ConfirmTargets, state \in ConfirmStates : confirm_cmd(target, state)
    \/ \E action \in WhitelistActions, cmd \in WhitelistCommands : whitelist_cmd(action, cmd)

SpecSettings == InitSettings /\ [][NextSettings]_vars

(***************************************************************************)
(* CommandRegistry (commands.py)                                           *)
(***************************************************************************)
MaxAdds == 2

\* sep.join(parts)
RECURSIVE Join(_, _)
Join(parts, sep) ==
    IF parts = <<>> THEN <<>>
    ELSE IF Len(parts) = 1 THEN parts[1]
    ELSE parts[1] \o sep \o Join(Tail(parts), sep)

\* s.lstrip('/') (variant: one leading slash is removed)
lstrip_slash_Once(s) ==
    IF s # <<>> /\ Head(s) = "/" THEN Tail(s) ELSE s

\* s.lstrip('/')
RECURSIVE lstrip_slash(_)
lstrip_slash(s) ==
    IF s # <<>> /\ Head(s) = "/" THEN lstrip_slash(Tail(s)) ELSE s

\* the characters of the model's strings in code point order
AsciiChars == <<" ", "'", "(", ")", "*", ",", "-", ".", "/", "0", "1", "2", "3", "4", "5", "6", "7", "8", "9", ":", "<", "=", ">", "A", "B", "C", "D", "E", "F", "G", "H", "I", "J", "K", "L", "M", "N", "O", "P", "Q", "R", "S", "T", "U", "V", "W", "X", "Y", "Z", "_", "a", "b", "c", "d", "e", "f", "g", "h", "i", "j", "k", "l", "m", "n", "o", "p", "q", "r", "s", "t", "u", "v", "w", "x", "y", "z">>

Ord(c) == CHOOSE i \in 1..Len(AsciiChars) : AsciiChars[i] = c

\* a < b for Python strings
RECURSIVE StrLess(_, _)
StrLess(a, b) ==
    IF b = <<>> THEN FALSE
    ELSE IF a = <<>> THEN TRUE
    ELSE IF Head(a) = Head(b) THEN StrLess(Tail(a), Tail(b))
    ELSE Ord(Head(a)) < Ord(Head(b))

\* sorted(names), for names that are pairwise different
RECURSIVE sorted(_)
sorted(names) ==
    IF names = {} THEN <<>>
    ELSE LET least == CHOOSE n \in names : \A m \in names \ {n} : StrLess(n, m)
         IN  <<least>> \o sorted(names \ {least})

\* one entry of func._command_parameters as the decorator builds it (lines 73-79):
\* default is {} for None and {v} for the value v
Param(name, type, required, default) ==
    [name |-> name, type |-> type, required |-> required, default |-> default]

\* a function decorated with @command(name, description, usage) (lines 53-84);
\* body tells what the function does when it is called
Decorated(id, name, description, usage, parameters, body) ==
    [id |-> id, has_meta |-> TRUE, name |-> name, description |-> description,
     usage |-> usage, parameters |-> parameters, body |-> body]

\* lines 99-121
help_command ==
    Decorated("help_command", <<"h", "e", "l", "p">>, <<"S", "h", "o", "w", " ", "a", "v", "a", "i", "l", "a", "b", "l", "e", " ", "c", "o", "m", "m", "a", "n", "d", "s">>,
              <<"/", "/", "h", "e", "l", "p", " ", "[", "c", "o", "m", "m", "a", "n", "d", "_", "n", "a", "m", "e", "]">>,
              << Param(<<"c", "o", "m", "m", "a", "n", "d", "_", "n", "a", "m", "e">>, <<"s", "t", "r">>, FALSE, {}) >>, "help")

\* lines 123-131
list_commands ==
    Decorated("list_commands", <<"l", "i", "s", "t">>, <<"L", "i", "s", "t", " ", "a", "l", "l", " ", "a", "v", "a", "i", "l", "a", "b", "l", "e", " ", "c", "o", "m", "m", "a", "n", "d", "s">>, <<"/", "l", "i", "s", "t">>,
              <<>>, "list")

\* the functions add_command is called with
Functions ==
    { Decorated("unit_convert_cmd", <<"c", "o", "n", "v", "e", "r", "t">>, <<"C", "o", "n", "v", "e", "r", "t", " ", "u", "n", "i", "t", "s">>,
                <<"/", "/", "c", "o", "n", "v", "e", "r", "t", " ", "<", "v", "a", "l", "u", "e", ">", " ", "<", "f", "r", "o", "m", "_", "u", "n", "i", "t", ">", " ", "<", "t", "o", "_", "u", "n", "i", "t", ">">>,
                << Param(<<"v", "a", "l", "u", "e">>, <<"f", "l", "o", "a", "t">>, TRUE, {}),
                   Param(<<"f", "r", "o", "m", "_", "u", "n", "i", "t">>, <<"s", "t", "r">>, TRUE, {}),
                   Param(<<"t", "o", "_", "u", "n", "i", "t">>, <<"s", "t", "r">>, TRUE, {}) >>, "format"),
      Decorated("convert_v2", <<"c", "o", "n", "v", "e", "r", "t">>, <<"E", "x", "e", "c", "u", "t", "e", " ", "c", "o", "n", "v", "e", "r", "t", " ", "c", "o", "m", "m", "a", "n", "d">>, <<"/", "c", "o", "n", "v", "e", "r", "t">>,
                << Param(<<"v", "a", "l", "u", "e">>, <<"s", "t", "r">>, TRUE, {}) >>, "format"),
      Decorated("analyze_code_cmd", <<"a", "n", "a", "l", "y", "z", "e">>, <<"A", "n", "a", "l", "y", "z", "e", " ", "c", "o", "d", "e">>,
                <<"/", "a", "n", "a", "l", "y", "z", "e", " ", "<", "c", "o", "d", "e", ">", " ", "[", "l", "a", "n", "g", "u", "a", "g", "e", "]">>,
                << Param(<<"c", "o", "d", "e">>, <<"s", "t", "r">>, TRUE, {}),
                   Param(<<"l", "a", "n", "g", "u", "a", "g", "e">>, <<"s", "t", "r">>, FALSE, { <<"p", "y", "t", "h", "o", "n">> }) >>, "format"),
      Decorated("show_help", <<"h", "e", "l", "p">>, <<"S", "h", "o", "w", " ", "h", "e", "l", "p", " ", "i", "n", "f", "o", "r", "m", "a", "t", "i", "o", "n">>,
                <<"/", "/", "h", "e", "l", "p", " ", "[", "c", "o", "m", "m", "a", "n", "d", "_", "n", "a", "m", "e", "]">>,
                << Param(<<"c", "o", "m", "m", "a", "n", "d", "_", "n", "a", "m", "e">>, <<"s", "t", "r">>, FALSE, {}) >>, "format"),
      Decorated("list_tools", <<"l", "i", "s", "t">>, <<"L", "i", "s", "t", " ", "a", "l", "l", " ", "a", "v", "a", "i", "l", "a", "b", "l", "e", " ", "t", "o", "o", "l", "s">>, <<"/", "l", "i", "s", "t">>,
                <<>>, "none"),
      Decorated("count_cmd", <<"c", "o", "u", "n", "t">>, <<"E", "x", "e", "c", "u", "t", "e", " ", "c", "o", "u", "n", "t", " ", "c", "o", "m", "m", "a", "n", "d">>, <<"/", "c", "o", "u", "n", "t">>,
                << Param(<<"i", "t", "e", "m">>, <<"s", "t", "r">>, FALSE, {}) >>, "count"),
      Decorated("fail_cmd", <<"f", "a", "i", "l">>, <<"E", "x", "e", "c", "u", "t", "e", " ", "f", "a", "i", "l", " ", "c", "o", "m", "m", "a", "n", "d">>, <<"/", "f", "a", "i", "l">>,
                << Param(<<"r", "e", "a", "s", "o", "n">>, <<"s", "t", "r">>, FALSE, { <<"b", "a", "d", " ", "i", "n", "p", "u", "t">> }) >>, "raise"),
      [id |-> "undecorated", has_meta |-> FALSE, name |-> <<>>, description |-> <<>>,
       usage |-> <<>>, parameters |-> <<>>, body |-> "none"] }

\* CommandInfo(name, function, description, parameters, usage), lines 141-147
CommandInfo(func) ==
    [name |-> func.name, function |-> func, description |-> func.description,
     parameters |-> func.parameters, usage |-> func.usage]

\* name in self.commands
Has(cmds, name) == \E i \in 1..Len(cmds) : cmds[i].name = name

\* self.commands[name]
Lookup(cmds, name) == cmds[CHOOSE i \in 1..Len(cmds) : cmds[i].name = name]

\* self.commands.keys(), in the order of the dict
Keys(cmds) == [i \in 1..Len(cmds) |-> cmds[i].name]

\* self.commands[name] = info (variant: a second entry is added for a name already held)
DictAssign_Append(cmds, info) == Append(cmds, info)

\* self.commands[name] = info (variant: a name already held keeps its entry)
DictAssign_KeepFirst(cmds, info) ==
    IF Has(cmds, info.name) THEN cmds ELSE Append(cmds, info)

\* self.commands[name] = info: a dict keeps the position of a key it already holds
DictAssign(cmds, info) ==
    IF Has(cmds, info.name)
    THEN [i \in 1..Len(cmds) |-> IF cmds[i].name = info.name THEN info ELSE cmds[i]]
    ELSE Append(cmds, info)

\* list_command_names, lines 245-247
list_command_names(cmds) == Keys(cmds)

\* lines 92-94 and 134-135: the registry as __init__ leaves it
BuiltIn == DictAssign(DictAssign(<<>>, CommandInfo(help_command)), CommandInfo(list_commands))

\* one line of the detailed help, line 112
ParamLine(p) ==
    <<" ", " ", "-", " ">> \o p.name \o <<":", " ">> \o p.type \o <<" ", "(">>
        \o (IF p.required THEN <<"r", "e", "q", "u", "i", "r", "e", "d">> ELSE <<"o", "p", "t", "i", "o", "n", "a", "l">>) \o <<")">>
        \o (IF p.default = {} THEN <<>>
            ELSE <<" ", "(", "d", "e", "f", "a", "u", "l", "t", ":", " ">> \o (CHOOSE v \in p.default : TRUE) \o <<")">>)
        \o <<"\n">>

\* the built-in help, lines 100-121; command_name is {} for None
HelpText(cmds, command_name) ==
    IF command_name # {} /\ command_name # { <<>> }
    THEN LET asked == CHOOSE n \in command_name : TRUE
         IN  IF Has(cmds, asked)
             THEN LET cmd == Lookup(cmds, asked)
                  IN  <<"*", "*", "/", "/">> \o cmd.name \o <<"*", "*", " ", "-", " ">> \o cmd.description \o <<"\n">>
                      \o (IF cmd.usage # <<>>
                          THEN <<"U", "s", "a", "g", "e", ":", " ">> \o cmd.usage \o <<"\n">> ELSE <<>>)
                      \o (IF cmd.parameters # <<>>
                          THEN <<"P", "a", "r", "a", "m", "e", "t", "e", "r", "s", ":", "\n">>
                               \o Join([i \in 1..Len(cmd.parameters) |->
                                           ParamLine(cmd.parameters[i])], <<>>)
                          ELSE <<>>)
             ELSE <<"C", "o", "m", "m", "a", "n", "d", " ", "'">> \o asked \o <<"'", " ", "n", "o", "t", " ", "f", "o", "u", "n", "d", ".">>
    ELSE <<"A", "v", "a", "i", "l", "a", "b", "l", "e", " ", "C", "o", "m", "m", "a", "n", "d", "s", ":", "\n">>
         \o Join([i \in 1..Len(cmds) |->
                     <<" ", " ", "/", "/">> \o cmds[i].name \o <<" ", "-", " ">> \o cmds[i].description \o <<"\n">>],
                 <<>>)
         \o <<"\n", "U", "s", "e", " ", "/", "/", "h", "e", "l", "p", " ", "<", "c", "o", "m", "m", "a", "n", "d", "_", "n", "a", "m", "e", ">", " ", "f", "o", "r", " ", "d", "e", "t", "a", "i", "l", "e", "d", " ", "h", "e", "l", "p", " ", "o", "n", " ", "a", " ", "s", "p", "e", "c", "i", "f", "i", "c", " ", "c", "o", "m", "m", "a", "n", "d", ".">>

\* the built-in list, lines 124-131
ListText(cmds) ==
    IF cmds = <<>> THEN <<"N", "o", " ", "c", "o", "m", "m", "a", "n", "d", "s", " ", "a", "v", "a", "i", "l", "a", "b", "l", "e", ".">>
    ELSE LET names == sorted({ cmds[i].name : i \in 1..Len(cmds) })
         IN  <<"A", "v", "a", "i", "l", "a", "b", "l", "e", " ", "C", "o", "m", "m", "a", "n", "d", "s", ":", "\n">>
             \o Join([i \in 1..Len(names) |-> <<" ", " ", "/", "/">> \o names[i] \o <<"\n">>], <<>>)

\* what a registered function that formats its arguments returns: its
\* arguments in declaration order
FormatText(func, given) ==
    LET present == SelectSeq(func.parameters, LAMBDA p : p.name \in DOMAIN given)
    IN  Join([i \in 1..Len(present) |-> present[i].name \o <<"=">> \o given[present[i].name]],
             <<",", " ">>)

\* command_info.function(**prepared_kwargs), line 206: the function returns a
\* string ("value"), returns an int ("int"), returns None ("none") or raises
\* an Exception ("raise")
Call(func, given, cmds) ==
    CASE func.body = "help" ->
             [kind |-> "value", number |-> 0,
              text |-> HelpText(cmds, IF <<"c", "o", "m", "m", "a", "n", "d", "_", "n", "a", "m", "e">> \in DOMAIN given
                                      THEN { given[<<"c", "o", "m", "m", "a", "n", "d", "_", "n", "a", "m", "e">>] } ELSE {})]
      [] func.body = "list" -> [kind |-> "value", number |-> 0, text |-> ListText(cmds)]
      [] func.body = "format" ->
             [kind |-> "value", number |-> 0, text |-> FormatText(func, given)]
      [] func.body = "count" ->
             [kind |-> "int", number |-> Cardinality(DOMAIN given), text |-> <<>>]
      [] func.body = "raise" -> [kind |-> "raise", number |-> 0, text |-> given[<<"r", "e", "a", "s", "o", "n">>]]
      [] OTHER -> [kind |-> "none", number |-> 0, text |-> <<>>]

Digits == <<"0", "1", "2", "3", "4", "5", "6", "7", "8", "9">>

\* str(n) for an int n >= 0
RECURSIVE str_int(_)
str_int(n) ==
    IF n < 10 THEN << Digits[n + 1] >>
    ELSE str_int(n \div 10) \o << Digits[(n % 10) + 1] >>

\* line 208 (variant: every falsy result gives the success string)
ResultText_Truthy(out) ==
    IF out.kind = "none" \/ (out.kind = "value" /\ out.text = <<>>)
          \/ (out.kind = "int" /\ out.number = 0)
    THEN <<"C", "o", "m", "m", "a", "n", "d", " ", "e", "x", "e", "c", "u", "t", "e", "d", " ", "s", "u", "c", "c", "e", "s", "s", "f", "u", "l", "l", "y", ".">>
    ELSE IF out.kind = "int" THEN str_int(out.number)
    ELSE out.text

\* line 208: str(result) if result is not None else "Command executed successfully."
ResultText(out) ==
    IF out.kind = "none" THEN <<"C", "o", "m", "m", "a", "n", "d", " ", "e", "x", "e", "c", "u", "t", "e", "d", " ", "s", "u", "c", "c", "e", "s", "s", "f", "u", "l", "l", "y", ".">>
    ELSE IF out.kind = "int" THEN str_int(out.number)
    ELSE out.text

\* _prepare_arguments, lines 224-239, over the parameters from the i-th on
RECURSIVE PrepareFrom(_, _, _, _)
PrepareFrom(parameters, provided_kwargs, i, prepared) ==
    IF i > Len(parameters) THEN [ok |-> TRUE, kwargs |-> prepared, error |-> <<>>]
    ELSE LET p == parameters[i]
         IN  IF p.name \in DOMAIN provided_kwargs
             THEN PrepareFrom(parameters, provided_kwargs, i + 1,
                              DictSet(prepared, p.name, provided_kwargs[p.name]))
             ELSE IF p.required
             THEN [ok |-> FALSE, kwargs |-> prepared,
                   error |-> <<"R", "e", "q", "u", "i", "r", "e", "d", " ", "p", "a", "r", "a", "m", "e", "t", "e", "r", " ", "'">> \o p.name \o <<"'", " ", "n", "o", "t", " ", "p", "r", "o", "v", "i", "d", "e", "d">>]
             ELSE IF p.default # {}
             THEN PrepareFrom(parameters, provided_kwargs, i + 1,
                              DictSet(prepared, p.name, CHOOSE v \in p.default : TRUE))
             ELSE PrepareFrom(parameters, provided_kwargs, i + 1, prepared)

\* _prepare_arguments (variant: the provided arguments are passed on as they are)
_prepare_arguments_PassAll(command_info, provided_kwargs) ==
    [ok |-> TRUE, kwargs |-> provided_kwargs, error |-> <<>>]

_prepare_arguments(command_info, provided_kwargs) ==
    PrepareFrom(command_info.parameters, provided_kwargs, 1, EmptyDict)

\* lines 195-200 (variant: the arguments are bound from the last parameter backwards)
BindPositional_Reversed(param_names, command_args) ==
    LET n == IF Len(command_args) < Len(param_names) THEN Len(command_args)
             ELSE Len(param_names)
    IN  [k \in { param_names[Len(param_names) + 1 - i] : i \in 1..n } |->
            command_args[CHOOSE i \in 1..n : param_names[Len(param_names) + 1 - i] = k]]

\* lines 195-200: kwargs[param_names[i]] = arg for every i < len(param_names)
BindPositional(param_names, command_args) ==
    LET n == IF Len(command_args) < Len(param_names) THEN Len(command_args)
             ELSE Len(param_names)
    IN  [k \in { param_names[i] : i \in 1..n } |->
            command_args[CHOOSE i \in 1..n : param_names[i] = k]]

\* line 194 (variant: positional arguments fill in whatever kwargs leave out)
EffectiveKwargs_Merge(command_info, command_args, kw) ==
    LET bound == BindPositional([i \in 1..Len(command_info.parameters) |->
                                    command_info.parameters[i].name], command_args)
    IN  [k \in (DOMAIN kw) \cup (DOMAIN bound) |->
            IF k \in DOMAIN kw THEN kw[k] ELSE bound[k]]

\* lines 195-200: the kwargs handed to _prepare_arguments
EffectiveKwargs(command_info, command_args, kw) ==
    IF kw = EmptyDict /\ command_args # <<>>
    THEN BindPositional([i \in 1..Len(command_info.parameters) |->
                            command_info.parameters[i].name], command_args)
    ELSE kw

\* line 189 (variant: the message names the command only)
NotFoundText_NoList(command_name, cmds) ==
    <<"C", "o", "m", "m", "a", "n", "d", " ", "'">> \o command_name \o <<"'", " ", "n", "o", "t", " ", "f", "o", "u", "n", "d", ".">>

\* line 189
NotFoundText(command_name, cmds) ==
    <<"C", "o", "m", "m", "a", "n", "d", " ", "'">> \o command_name \o <<"'", " ", "n", "o", "t", " ", "f", "o", "u", "n", "d", ".", " ", "A", "v", "a", "i", "l", "a", "b", "l", "e", " ", "c", "o", "m", "m", "a", "n", "d", "s", ":", " ">>
        \o Join(Keys(cmds), <<",", " ">>)

\* lines 210-211 (variant: the handler's exception leaves the dispatcher)
HandlerRaised_Propagates(command_name, message) ==
    [returned |-> FALSE, text |-> message]

\* lines 210-211: except Exception as e
HandlerRaised(command_name, message) ==
    [returned |-> TRUE,
     text |-> <<"E", "r", "r", "o", "r", " ", "e", "x", "e", "c", "u", "t", "i", "n", "g", " ", "c", "o", "m", "m", "a", "n", "d", " ", "'">> \o command_name \o <<"'", ":", " ">> \o message]

\* lines 193-211 (variant: the function is called before the arguments are validated)
Dispatch_CallFirst(command_name, command_info, command_args, kw, cmds) ==
    LET given == EffectiveKwargs(command_info, command_args, kw)
        prep == _prepare_arguments(command_info, given)
    IN  IF ~prep.ok
        THEN [returned |-> TRUE,
              text |-> <<"E", "r", "r", "o", "r", " ", "e", "x", "e", "c", "u", "t", "i", "n", "g", " ", "c", "o", "m", "m", "a", "n", "d", " ", "'">> \o command_name \o <<"'", ":", " ">>
                           \o prep.error,
              calls |-> << [function |-> command_info.function.id,
                            kwargs |-> prep.kwargs] >>]
        ELSE LET out == Call(command_info.function, prep.kwargs, cmds)
                 done == IF out.kind = "raise" THEN HandlerRaised(command_name, out.text)
                         ELSE [returned |-> TRUE, text |-> ResultText(out)]
             IN  [returned |-> done.returned, text |-> done.text,
                  calls |-> << [function |-> command_info.function.id,
                                kwargs |-> prep.kwargs] >>]

\* lines 193-211: the try block of execute_command for a registered command
Dispatch(command_name, command_info, command_args, kw, cmds) ==
    LET given == EffectiveKwargs(command_info, command_args, kw)
        prep == _prepare_arguments(command_info, given)
    IN  IF ~prep.ok
        THEN [returned |-> TRUE,
              text |-> <<"E", "r", "r", "o", "r", " ", "e", "x", "e", "c", "u", "t", "i", "n", "g", " ", "c", "o", "m", "m", "a", "n", "d", " ", "'">> \o command_name \o <<"'", ":", " ">>
                           \o prep.error,
              calls |-> <<>>]
        ELSE LET out == Call(command_info.function, prep.kwargs, cmds)
                 done == IF out.kind = "raise" THEN HandlerRaised(command_name, out.text)
                         ELSE [returned |-> TRUE, text |-> ResultText(out)]
             IN  [returned |-> done.returned, text |-> done.text,
                  calls |-> << [function |-> command_info.function.id,
                                kwargs |-> prep.kwargs] >>]

\* execute_command(command_str, **kwargs), lines 166-211, as a function of the registry
Execute(cmds, command_str, kw) ==
    LET parts == split(lstrip_slash(command_str))
    IN  IF parts = <<>>
        THEN [returned |-> TRUE, text |-> <<"N", "o", " ", "c", "o", "m", "m", "a", "n", "d", " ", "p", "r", "o", "v", "i", "d", "e", "d">>, calls |-> <<>>]
        ELSE IF ~Has(cmds, parts[1])
        THEN [returned |-> TRUE, text |-> NotFoundText(parts[1], cmds), calls |-> <<>>]
        ELSE Dispatch(parts[1], Lookup(cmds, parts[1]), Tail(parts), kw, cmds)

\* the strings execute_command is called with
CommandStrings ==
    { <<"h", "e", "l", "p">>, <<"h", "e", "l", "p", " ", "c", "o", "n", "v", "e", "r", "t">>, <<"/", "/", "l", "i", "s", "t">>, <<"/", "c", "o", "n", "v", "e", "r", "t", " ", "1", "0", "0", " ", "l", "b", " ", "k", "g">>, <<"c", "o", "n", "v", "e", "r", "t", " ", "1", "0", "0", " ", "l", "b">>,
      <<"a", "n", "a", "l", "y", "z", "e", " ", "x">>, <<"a", "n", "a", "l", "y", "z", "e", " ", "x", " ", "g", "o", " ", "p", "y">>, <<"f", "a", "i", "l">>, <<"f", "a", "i", "l", " ", "o", "o", "p", "s">>, <<"t", "o", "o", "l", "s">>,
      <<"c", "o", "u", "n", "t">>, <<"c", "o", "u", "n", "t", " ", "a", " ", "b">>, <<>>, <<"/", "/">>, <<" ", " ">>, <<"/", "/", " ", "\t">> }

\* the keyword arguments execute_command is called with
KeywordArgs ==
    { EmptyDict,
      [k \in { <<"l", "a", "n", "g", "u", "a", "g", "e">> } |-> <<"g", "o">>],
      [k \in { <<"c", "o", "d", "e">>, <<"m", "o", "d", "e">> } |-> IF k = <<"c", "o", "d", "e">> THEN <<"y">> ELSE <<"f", "a", "s", "t">>] }

\* CommandRegistry.__init__, lines 92-94
RegistryInit ==
    /\ commands = BuiltIn
    /\ registrations = << help_command, list_commands >>
    /\ dispatched = {}
    /\ last_dispatch = [returned |-> TRUE, text |-> <<>>, calls |-> <<>>]
    /\ add_error = FALSE

\* add_command(func) (variant: a function without metadata is registered under an empty name)
add_command_Unchecked(func) ==
    /\ Len(registrations) < 2 + MaxAdds
    /\ add_error' = FALSE
    /\ commands' = DictAssign(commands, CommandInfo(func))
    /\ registrations' = Append(registrations, func)
    /\ dispatched' = {}
    /\ last_dispatch' = [returned |-> TRUE, text |-> <<>>, calls |-> <<>>]
    /\ UNCHANGED outsideRegistry

\* add_command(func), lines 137-149
add_command(func) ==
    /\ Len(registrations) < 2 + MaxAdds
    /\ IF ~func.has_meta
       THEN /\ add_error' = TRUE
            /\ UNCHANGED <<commands, registrations>>
       ELSE /\ add_error' = FALSE
            /\ commands' = DictAssign(commands, CommandInfo(func))
            /\ registrations' = Append(registrations, func)
    /\ dispatched' = {}
    /\ last_dispatch' = [returned |-> TRUE, text |-> <<>>, calls |-> <<>>]
    /\ UNCHANGED outsideRegistry

\* execute_command(command_str, **kwargs), lines 166-211
execute_command(command_str, kw) ==
    /\ dispatched' = { [command_str |-> command_str, kwargs |-> kw] }
    /\ last_dispatch' = Execute(commands, command_str, kw)
    /\ add_error' = FALSE
    /\ UNCHANGED <<commands, registrations>>
    /\ UNCHANGED outsideRegistry

NextRegistry ==
    \/ \E func \in Functions : add_command(func)
    \/ \E command_str \in CommandStrings, kw \in KeywordArgs :
          execute_command(command_str, kw)

InitRegistry ==
    /\ HandlerInit /\ confirm_terminal /\ confirm_tools /\ whitelist_enabled
    /\ CliInit
    /\ SafeIdle
    /\ ChatIdle
    /\ PromptIdle
    /\ SettingsIdle
    /\ RegistryInit
    /\ MemoryIdle

SpecRegistry == InitRegistry /\ [][NextRegistry]_vars

(***************************************************************************)
(* SimpleConversationMemory (cli.py)                                       *)
(***************************************************************************)
MaxMessages == 2

MaxLog == 2

\* session ids: cli.py line 531 and api_server.py make the id of the running
\* session non-empty; a websocket client may send "" as the id of a message
SessionIds == { <<>>, <<"a">>, <<"b">> }

\* the session ids clear is called with (commands.py line 581: the id of the
\* running session), and {} for the argument left out
ClearArgs == { {} } \cup { {id} : id \in SessionIds \ { <<>> } }

\* the limits get_history is called with: {} for None
Limits == { {} } \cup { {n} : n \in 0..MaxMessages }

Messages == { <<"h", "i">>, <<"l", "s">> }

Responses == { <<"o", "k">> }

\* truth value of an optional str argument: None and "" are false
TruthyStr(arg) == arg # {} /\ arg # { <<>> }

\* truth value of an optional int argument: None and 0 are false
TruthyInt(arg) == arg # {} /\ arg # { 0 }

\* variant of the slice that keeps the first n entries
Slice_First(l, n) == SubSeq(l, 1, IF n < Len(l) THEN n ELSE Len(l))

\* l[-n:] for n >= 0: -0 is 0, so n = 0 gives the whole list
Slice(l, n) ==
    IF n = 0 \/ n >= Len(l) THEN l
    ELSE SubSeq(l, Len(l) - n + 1, Len(l))

\* __init__, lines 107-109
MemoryInit ==
    /\ max_messages \in 1..MaxMessages
    /\ history = EmptyDict
    /\ got_history = <<>>
    /\ added = [id \in SessionIds |-> <<>>]

\* add_message, lines 112-117
add_message(session_id, message, response_text) ==
    /\ Len(added[session_id]) < MaxLog
    /\ LET entry == [message |-> message, response |-> response_text]
           appended == Append(Get(history, session_id, <<>>), entry)
       IN  /\ history' = DictSet(history, session_id,
                                 IF Len(appended) > max_messages
                                 THEN Slice(appended, max_messages) ELSE appended)
           /\ added' = [added EXCEPT ![session_id] = Append(@, entry)]
    /\ UNCHANGED <<max_messages, got_history>>
    /\ UNCHANGED outsideMemory

\* get_history, lines 119-121
get_history(session_id, limit) ==
    /\ got_history' =
           LET h == Get(history, session_id, <<>>)
           IN  IF TruthyInt(limit) THEN Slice(h, CHOOSE n \in limit : TRUE) ELSE h
    /\ UNCHANGED <<max_messages, history, added>>
    /\ UNCHANGED outsideMemory

\* clear, lines 123-127
clear(session_id) ==
    /\ IF TruthyStr(session_id)
       THEN LET id == CHOOSE x \in session_id : TRUE
            IN  /\ history' = DictWithout(history, id)
                /\ added' = [added EXCEPT ![id] = <<>>]
       ELSE /\ history' = EmptyDict
            /\ added' = [id \in SessionIds |-> <<>>]
    /\ UNCHANGED <<max_messages, got_history>>
    /\ UNCHANGED outsideMemory

NextMemory ==
    \/ \E id \in SessionIds, m \in Messages, r \in Responses : add_message(id, m, r)
    \/ \E id \in SessionIds, limit \in Limits : get_history(id, limit)
    \/ \E arg \in ClearArgs : clear(arg)

InitMemory ==
    /\ HandlerInit /\ confirm_terminal /\ confirm_tools /\ whitelist_enabled
    /\ CliInit
    /\ SafeIdle
    /\ ChatIdle
    /\ PromptIdle
    /\ SettingsIdle
    /\ RegistryIdle
    /\ MemoryInit

SpecMemory == InitMemory /\ [][NextMemory]_vars

(***************************************************************************)
(* Properties                                                              *)
(***************************************************************************)
\* calls that began after the last on_chain_end: the current batch
Current == Threads \ stale

Gated == { "returned", "raised" }

CurrentPrompts == { i \in 1..Len(prompts) : prompts[i].by \in Current }

\* C1: within one batch at most one caller passes the opener check and sets
\* the prompt-in-progress flag, so exactly one prompt is rendered per batch.
C1_SingleOpenerPerBatch ==
    /\ Cardinality(openers \cap Current) <= 1
    /\ Cardinality(CurrentPrompts) <= 1

\* the human answered no to a prompt of the current batch
DeniedInBatch == \E t \in openers \cap Current : pc[t] = "raised"

\* C2: when the human answers no, no gated request of that batch proceeds:
\* the opener and every non-opener of the batch raise instead of returning.
C2_DenialStopsBatch ==
    DeniedInBatch => \A t \in Current : pc[t] # "returned"

\* C3: all gated callers of one batch act on the same decision: all return
\* normally or all raise the cancellation.
C3_SameDecisionForAll ==
    \A t1, t2 \in Current :
        (pc[t1] \in Gated /\ pc[t2] \in Gated) => pc[t1] = pc[t2]

\* C4: a prompt lists, in arrival order, every gated request appended before
\* it was rendered; a request arriving after the prompt was rendered is not
\* in it and its caller never opens a second prompt.
C4_PromptListsArrivals ==
    /\ \A i \in CurrentPrompts :
          /\ prompts[i].seen <= Len(arrived)
          /\ prompts[i].tools = SubSeq(arrived, 1, prompts[i].seen)
    /\ \A t \in late :
          /\ t \notin openers
          /\ pc[t] \notin { "lock", "sleep", "render", "input" }
          /\ \A i \in 1..Len(prompts) : prompts[i].by # t

C4_Witness ==
    \E i \in CurrentPrompts : Len(prompts[i].tools) = 2

\* C5: a shell-like tool whose extracted command matches the whitelist, with
\* the whitelist enabled, returns at once: no prompt, nothing appended, batch
\* state unchanged, even when confirm_terminal is on.
C5_WhitelistSkipsGate ==
    [][ \A t \in Threads, c \in Calls :
          ( /\ pc[t] = "idle" /\ pc'[t] # "idle"
            /\ ToolStart(t, c.serialized, c.input_str)
            /\ _is_shell_tool(ToolName(c.serialized))
            /\ whitelist_enabled
            /\ _is_safe_command(ActualInput(c.input_str), safe_commands) )
          => ( /\ pc'[t] = "passed"
               /\ UNCHANGED <<pending_tools, user_approved, confirmation_shown,
                              showing_prompt, prompts, arrived>> ) ]_vars

C5_Witness ==
    /\ confirm_terminal /\ confirm_tools /\ whitelist_enabled
    /\ \E t \in Threads : pc[t] = "passed"
    /\ \E t \in Threads : pc[t] = "input"

\* C7: a request the whitelist does not exempt is gated exactly when it is
\* (shell-like and confirm_terminal) or (not shell-like and confirm_tools);
\* otherwise it returns at once and leaves the batch state unchanged.
C7_GateMatchesToggles ==
    [][ \A t \in Threads, c \in Calls :
          (pc[t] = "idle" /\ pc'[t] # "idle" /\ ToolStart(t, c.serialized, c.input_str))
          => LET shell == _is_shell_tool(ToolName(c.serialized))
                 exempt == /\ shell
                           /\ whitelist_enabled
                           /\ _is_safe_command(ActualInput(c.input_str), safe_commands)
                 required == (shell /\ confirm_terminal) \/ (~shell /\ confirm_tools)
             IN  exempt \/ IF required
                           THEN /\ pc'[t] = "check_showing"
                                /\ Len(pending_tools') = Len(pending_tools) + 1
                           ELSE /\ pc'[t] = "passed"
                                /\ UNCHANGED <<pending_tools, user_approved,
                                     confirmation_shown, showing_prompt, prompts, arrived>> ]_vars

C7_Witness ==
    /\ confirm_terminal /\ ~confirm_tools /\ ~whitelist_enabled
    /\ \E t \in Threads : pc[t] = "passed"
    /\ \E t \in Threads : pc[t] = "raised"
    /\ Len(prompts) = 1 /\ Len(prompts[1].tools) = 1

\* C8: within one batch the decision changes at most once, from Unset to a
\* terminal value, and goes back to Unset only through on_chain_end.
C8_DecisionSetOnce ==
    [][ user_approved # "None"
        => \/ user_approved' = user_approved
           \/ (user_approved' = "None" /\ on_chain_end) ]_vars

\* the Idle batch state
Idle ==
    /\ pending_tools = <<>>
    /\ user_approved = "None"
    /\ ~showing_prompt
    /\ ~confirmation_shown

\* C9: on_chain_end leaves the batch state Idle whatever the turn's outcome;
\* with no call of the earlier turn left, the state stays fresh until a
\* caller of the new turn takes the opener branch, and the prompts of the
\* new turn list only that turn's requests.
C9_ResetStartsFreshBatch ==
    /\ [][ on_chain_end => Idle' ]_vars
    /\ [] ( (stale = {} /\ openers = {})
            => /\ ~showing_prompt /\ ~confirmation_shown /\ user_approved = "None"
               /\ prompts = <<>>
               /\ \A t \in Threads : pc[t] \notin { "wait", "decide", "returned", "raised" } )
    /\ [] ( stale = {}
            => /\ pending_tools = arrived
               /\ \A i \in 1..Len(prompts) :
                     prompts[i].tools = SubSeq(arrived, 1, Len(prompts[i].tools)) )

C9_Witness ==
    /\ after_denial
    /\ stale = {}
    /\ Len(prompts) = 1
    /\ Len(prompts[1].tools) >= 1
    /\ prompts[1].tools = pending_tools

\* C10: after a denied confirmation the interactive loop is still running
\* and reads the next input.
C10_DenialKeepsSession ==
    (\E t \in Threads : pc[t] = "raised") => cli_pc # "exited"

(***************************************************************************)
(* The whitelist rule as the interface states it                           *)
(***************************************************************************)
SameLetter(a, b) ==
    \/ a = b
    \/ \E i \in 1..Len(UpperChars) : {a, b} = {UpperChars[i], LowerChars[i]}

EqualsIgnoringCase(s, e) ==
    Len(s) = Len(e) /\ \A i \in 1..Len(s) : SameLetter(s[i], e[i])

BeginsWithIgnoringCase(s, e) ==
    Len(e) <= Len(s) /\ \A i \in 1..Len(e) : SameLetter(s[i], e[i])

\* the first maximal run of non-whitespace characters, empty when there is none
FirstToken(s) ==
    LET word == { i \in 1..Len(s) : ~IsSpace(s[i]) }
    IN  IF word = {} THEN <<>>
        ELSE LET a == CHOOSE i \in word : \A j \in word : i <= j
                 b == CHOOSE i \in a..Len(s) :
                         /\ \A k \in a..i : k \in word
                         /\ (i = Len(s) \/ i + 1 \notin word)
             IN  SubSeq(s, a, b)

MatchesWhitelist(s, entries) ==
    /\ s # <<>>
    /\ \E i \in 1..Len(entries) :
          \/ EqualsIgnoringCase(FirstToken(s), entries[i])
          \/ BeginsWithIgnoringCase(s, entries[i])

\* C6: a command matches the whitelist exactly when it is non-empty and, for
\* some entry, its first token equals the entry or the whole command begins
\* with the entry, both ignoring case; "rm pwd.txt" does not match ["pwd"].
C6_SafeCommandRule ==
    safe_result # "None"
    => /\ (safe_result = "True") <=> MatchesWhitelist(command, safe_list)
       /\ (command = <<"r", "m", " ", "p", "w", "d", ".", "t", "x", "t">> /\ safe_list = << <<"p", "w", "d">> >>) => safe_result = "False"

C6_Witness ==
    /\ command = <<"r", "m", " ", "p", "w", "d", ".", "t", "x", "t">>
    /\ safe_list = << <<"p", "w", "d">> >>
    /\ safe_result = "False"

\* the interceptor AgentCLI.run supplies
Interceptor == "confirmation_handler"

\* the interceptor was supplied as callbacks= to the running call
InterceptorSupplied ==
    \/ "callbacks" \in DOMAIN kwargs /\ InList(Interceptor, kwargs["callbacks"])
    \/ \E l \in callbacks : InList(Interceptor, l)

\* an invocation of the underlying agent carries the interceptor
Carries(inv) ==
    \/ \E d \in inv.config : "callbacks" \in DOMAIN d /\ InList(Interceptor, d["callbacks"])
    \/ "callbacks" \in DOMAIN inv.kwargs /\ InList(Interceptor, inv.kwargs["callbacks"])

\* C11: when the confirmation interceptor is supplied as callbacks to chat or
\* chat_with_tool_display, every invocation of the underlying agent made by the
\* call, the invoke fallback included, carries the interceptor
C11_EveryInvocationCarriesInterceptor ==
    InterceptorSupplied =>
        \A i \in 1..Len(invocations) : Carries(invocations[i])

\* C12: while an opener is prompting, an answer that after trimming and
\* lower-casing is none of yes, y, no, n leaves the decision Unset and the
\* pending batch unchanged and is followed by another read; only yes/y sets
\* Approved and only no/n sets Denied
C12_InvalidAnswerReprompts ==
    [][ /\ \A t \in Threads, line \in AnswerLines :
              PromptRead(t, line) /\ lower(strip(line)) \notin (Yes \cup No) =>
                  /\ user_approved' = "None"
                  /\ pending_tools' = pending_tools
                  /\ pc'[t] = "input"
        /\ (user_approved' = "True" /\ user_approved # "True") =>
              \E t \in Threads, line \in AnswerLines :
                  PromptRead(t, line) /\ lower(strip(line)) \in Yes
        /\ (user_approved' = "False" /\ user_approved # "False") =>
              \E t \in Threads, line \in AnswerLines :
                  PromptRead(t, line) /\ lower(strip(line)) \in No
      ]_vars

\* C13: after any sequence of //confirm and //whitelist commands the live
\* handler's toggles and whitelist, and the whitelist switch on_tool_start reads,
\* equal the configuration's, and once a command has changed the configuration
\* the saved file holds the configuration
C13_SettingsPropagate ==
    /\ confirm_terminal = Get(agent_config, "confirm_terminal", FALSE)
    /\ confirm_tools = Get(agent_config, "confirm_tools", FALSE)
    /\ whitelist_enabled = Get(agent_config, "whitelist_enabled", TRUE)
    /\ safe_commands = Get(agent_config, "safe_commands", <<>>)
    /\ changed => config_file = agent_config

\* a toggle, the switch and the whitelist have all been changed by commands
C13_Witness ==
    /\ changed
    /\ confirm_terminal /\ ~confirm_tools /\ ~whitelist_enabled
    /\ "confirm_tools" \in DOMAIN agent_config
    /\ safe_commands = << <<"l", "s">>, <<"p", "w", "d">> >>
    /\ settings_out = "saved"

\* the words of a dispatched command string
Tokens(d) == split(lstrip_slash(d.command_str))

\* the last dispatch named a registered command
NamedRegistered(d) == Tokens(d) # <<>> /\ Has(commands, Tokens(d)[1])

\* a dispatch leaves the registry as it was
DispatchKeepsRegistry ==
    \A command_str \in CommandStrings, kw \in KeywordArgs :
        execute_command(command_str, kw) => commands' = commands

\* C14: for every registry state and every name that is not registered,
\* execute_command returns a string that contains every registered command
\* name, calls no handler and leaves the registry unchanged
C14_UnknownCommandListsNames ==
    /\ [](\A d \in dispatched :
             (Tokens(d) # <<>> /\ ~Has(commands, Tokens(d)[1])) =>
                 /\ last_dispatch.returned
                 /\ last_dispatch.calls = <<>>
                 /\ \A i \in 1..Len(commands) :
                        Contains(last_dispatch.text, commands[i].name))
    /\ [][DispatchKeepsRegistry]_vars

\* an unregistered name was dispatched against a registry of four commands
C14_Witness ==
    /\ Len(commands) = 4
    /\ \E d \in dispatched : Tokens(d) = << <<"t", "o", "o", "l", "s">> >>
    /\ last_dispatch.calls = <<>>

\* the number of required parameters of a descriptor
RequiredCount(info) ==
    Cardinality({ i \in 1..Len(info.parameters) : info.parameters[i].required })

ErrorPrefix == <<"E", "r", "r", "o", "r", " ", "e", "x", "e", "c", "u", "t", "i", "n", "g", " ", "c", "o", "m", "m", "a", "n", "d", " ", "'">>

\* C15: for every registered handler with N required parameters, a dispatch
\* with fewer than N positional arguments and no keyword arguments returns an
\* error string and never calls the handler
C15_MissingRequiredIsError ==
    \A d \in dispatched :
        (/\ NamedRegistered(d)
         /\ d.kwargs = EmptyDict
         /\ Len(Tokens(d)) - 1 < RequiredCount(Lookup(commands, Tokens(d)[1]))) =>
            /\ last_dispatch.returned
            /\ last_dispatch.calls = <<>>
            /\ startswith(last_dispatch.text, ErrorPrefix)

\* convert, with three required parameters, was dispatched with two arguments
C15_Witness ==
    /\ \E d \in dispatched : d.command_str = <<"c", "o", "n", "v", "e", "r", "t", " ", "1", "0", "0", " ", "l", "b">> /\ d.kwargs = EmptyDict
    /\ Has(commands, <<"c", "o", "n", "v", "e", "r", "t">>)
    /\ RequiredCount(Lookup(commands, <<"c", "o", "n", "v", "e", "r", "t">>)) = 3
    /\ startswith(last_dispatch.text, ErrorPrefix)

\* the decorated functions registered so far under a name, as positions
RegisteredAs(name) == { k \in 1..Len(registrations) : registrations[k].name = name }

\* the latest registration of a name
Latest(name) ==
    registrations[CHOOSE k \in RegisteredAs(name) : \A j \in RegisteredAs(name) : j <= k]

\* the names registered so far, each at its first registration
RECURSIVE FirstInsertions(_, _)
FirstInsertions(regs, seen) ==
    IF regs = <<>> THEN <<>>
    ELSE IF Head(regs).name \in seen THEN FirstInsertions(Tail(regs), seen)
    ELSE << Head(regs).name >> \o FirstInsertions(Tail(regs), seen \cup { Head(regs).name })

\* C16: after any sequence of add_command calls the registry holds exactly one
\* descriptor per name, the one of the latest registration of the name, and
\* list_command_names has no duplicates and is in order of first insertion
C16_OneDescriptorPerName ==
    /\ \A i, j \in 1..Len(commands) : commands[i].name = commands[j].name => i = j
    /\ \A i \in 1..Len(commands) :
           /\ RegisteredAs(commands[i].name) # {}
           /\ commands[i] = CommandInfo(Latest(commands[i].name))
    /\ \A k \in 1..Len(registrations) : Has(commands, registrations[k].name)
    /\ list_command_names(commands) = FirstInsertions(registrations, {})

\* convert was registered twice and help was not re-registered
C16_Witness ==
    /\ Len(registrations) = 4
    /\ registrations[3].id = "unit_convert_cmd"
    /\ registrations[4].id = "convert_v2"
    /\ Len(commands) = 3
    /\ commands[3].function.id = "convert_v2"

Min(a, b) == IF a < b THEN a ELSE b

\* the string execute_command makes of what the called function did
Stringified(out, name) ==
    IF out.kind = "value" THEN out.text
    ELSE IF out.kind = "int" THEN str_int(out.number)
    ELSE IF out.kind = "none" THEN <<"C", "o", "m", "m", "a", "n", "d", " ", "e", "x", "e", "c", "u", "t", "e", "d", " ", "s", "u", "c", "c", "e", "s", "s", "f", "u", "l", "l", "y", ".">>
    ELSE ErrorPrefix \o name \o <<"'", ":", " ">> \o out.text

\* C17: with no keyword arguments and some positional arguments, the i-th
\* positional argument is bound to the i-th declared parameter and passed to
\* the handler as the unconverted string, whatever the declared type, and the
\* handler's result is returned as the dispatch result
C17_PositionalBinding ==
    \A d \in dispatched :
        (NamedRegistered(d) /\ d.kwargs = EmptyDict /\ Len(Tokens(d)) > 1) =>
            LET info == Lookup(commands, Tokens(d)[1])
                args == Tail(Tokens(d))
                covered == \A i \in 1..Len(info.parameters) :
                               info.parameters[i].required => i <= Len(args)
            IN  /\ covered <=> last_dispatch.calls # <<>>
                /\ last_dispatch.calls # <<>> =>
                       LET got == last_dispatch.calls[1].kwargs
                       IN  /\ Len(last_dispatch.calls) = 1
                           /\ last_dispatch.calls[1].function = info.function.id
                           /\ \A i \in 1..Min(Len(args), Len(info.parameters)) :
                                  /\ info.parameters[i].name \in DOMAIN got
                                  /\ got[info.parameters[i].name] = args[i]
                           /\ last_dispatch.text =
                                  Stringified(Call(info.function, got, commands),
                                              Tokens(d)[1])

\* convert 100 lb kg reached the function with value bound to the string 100
C17_Witness ==
    /\ \E d \in dispatched :
           d.command_str = <<"/", "c", "o", "n", "v", "e", "r", "t", " ", "1", "0", "0", " ", "l", "b", " ", "k", "g">> /\ d.kwargs = EmptyDict
    /\ last_dispatch.calls # <<>>
    /\ last_dispatch.calls[1].function = "unit_convert_cmd"
    /\ last_dispatch.calls[1].kwargs[<<"v", "a", "l", "u", "e">>] = <<"1", "0", "0">>
    /\ last_dispatch.text = <<"v", "a", "l", "u", "e", "=", "1", "0", "0", ",", " ", "f", "r", "o", "m", "_", "u", "n", "i", "t", "=", "l", "b", ",", " ", "t", "o", "_", "u", "n", "i", "t", "=", "k", "g">>

\* C18: with non-empty keyword arguments, the handler's arguments come only
\* from the keyword arguments and the defaults: positional arguments in the
\* command string are ignored, also for parameters the keyword arguments do
\* not supply
C18_KeywordsReplacePositionals ==
    \A d \in dispatched :
        (NamedRegistered(d) /\ d.kwargs # EmptyDict) =>
            LET info == Lookup(commands, Tokens(d)[1])
                unsupplied == \E i \in 1..Len(info.parameters) :
                                  /\ info.parameters[i].required
                                  /\ info.parameters[i].name \notin DOMAIN d.kwargs
            IN  /\ unsupplied <=> last_dispatch.calls = <<>>
                /\ last_dispatch.calls # <<>> =>
                       LET got == last_dispatch.calls[1].kwargs
                       IN  \A i \in 1..Len(info.parameters) :
                               LET p == info.parameters[i]
                               IN  IF p.name \in DOMAIN d.kwargs
                                   THEN p.name \in DOMAIN got /\ got[p.name] = d.kwargs[p.name]
                                   ELSE IF p.default # {}
                                   THEN p.name \in DOMAIN got /\ { got[p.name] } = p.default
                                   ELSE p.name \notin DOMAIN got

\* analyze x go py with code=y: the function got code=y and the default language
C18_Witness ==
    /\ \E d \in dispatched :
           /\ d.command_str = <<"a", "n", "a", "l", "y", "z", "e", " ", "x", " ", "g", "o", " ", "p", "y">>
           /\ DOMAIN d.kwargs = { <<"c", "o", "d", "e">>, <<"m", "o", "d", "e">> }
    /\ last_dispatch.calls # <<>>
    /\ last_dispatch.calls[1].kwargs =
           [k \in { <<"c", "o", "d", "e">>, <<"l", "a", "n", "g", "u", "a", "g", "e">> } |->
               IF k = <<"c", "o", "d", "e">> THEN <<"y">> ELSE <<"p", "y", "t", "h", "o", "n">>]

\* the function the last dispatch called raised
HandlerRaisedIn(d) ==
    /\ NamedRegistered(d)
    /\ \E i \in 1..Len(last_dispatch.calls) :
           Call(Lookup(commands, Tokens(d)[1]).function,
                last_dispatch.calls[i].kwargs, commands).kind = "raise"

\* C19: if the handler raises while being dispatched, execute_command returns
\* a string that contains the command name and the exception message, and the
\* registry is unchanged
C19_HandlerErrorIsReturned ==
    /\ [](\A d \in dispatched :
             HandlerRaisedIn(d) =>
                 LET raised == Call(Lookup(commands, Tokens(d)[1]).function,
                                    last_dispatch.calls[1].kwargs, commands)
                 IN  /\ last_dispatch.returned
                     /\ Contains(last_dispatch.text, Tokens(d)[1])
                     /\ Contains(last_dispatch.text, raised.text))
    /\ [][\A command_str \in CommandStrings, kw \in KeywordArgs :
              execute_command(command_str, kw) =>
                  /\ commands' = commands
                  /\ last_dispatch'.returned]_vars

\* fail oops was dispatched and its function raised with the message oops
C19_Witness ==
    /\ \E d \in dispatched : d.command_str = <<"f", "a", "i", "l", " ", "o", "o", "p", "s">> /\ HandlerRaisedIn(d)
    /\ last_dispatch.text = <<"E", "r", "r", "o", "r", " ", "e", "x", "e", "c", "u", "t", "i", "n", "g", " ", "c", "o", "m", "m", "a", "n", "d", " ", "'", "f", "a", "i", "l", "'", ":", " ", "o", "o", "p", "s">>

BuiltInNames == { <<"h", "e", "l", "p">>, <<"l", "i", "s", "t">> }

\* C20: a fresh CommandRegistry has help and list registered, and a handler
\* registered later under the name help or list replaces the built-in:
\* dispatching the name calls the new handler and not the built-in
C20_BuiltInsOverridable ==
    /\ Len(registrations) = 2 =>
           /\ Keys(commands) = << <<"h", "e", "l", "p">>, <<"l", "i", "s", "t">> >>
           /\ commands[1].function.id = "help_command"
           /\ commands[2].function.id = "list_commands"
    /\ \A name \in BuiltInNames : Has(commands, name)
    /\ \A d \in dispatched :
           (/\ Tokens(d) # <<>>
            /\ Tokens(d)[1] \in BuiltInNames
            /\ \E k \in RegisteredAs(Tokens(d)[1]) : k > 2) =>
               /\ Len(last_dispatch.calls) = 1
               /\ last_dispatch.calls[1].function = Latest(Tokens(d)[1]).id
               /\ last_dispatch.calls[1].function \notin { "help_command", "list_commands" }

\* help was dispatched after show_help had been registered, and show_help ran
C20_Witness ==
    /\ \E d \in dispatched : Tokens(d) = << <<"h", "e", "l", "p">>, <<"c", "o", "n", "v", "e", "r", "t">> >>
    /\ \E k \in 3..Len(registrations) : registrations[k].id = "show_help"
    /\ last_dispatch.calls # <<>>
    /\ last_dispatch.calls[1].function = "show_help"
    /\ last_dispatch.text = <<"c", "o", "m", "m", "a", "n", "d", "_", "n", "a", "m", "e", "=", "c", "o", "n", "v", "e", "r", "t">>

\* C21: add_command on a function that carries no command metadata fails with
\* an error and leaves the name-to-descriptor mapping exactly as it was
C21_UndecoratedIsRejected ==
    [][\A func \in Functions :
           (add_command(func) /\ ~func.has_meta) =>
               /\ add_error'
               /\ commands' = commands
               /\ registrations' = registrations]_vars

\* an undecorated function was offered to a registry that holds a third command
C21_Witness ==
    /\ add_error
    /\ Len(commands) = 3
    /\ \A i \in 1..Len(commands) : commands[i].function.has_meta

\* s is some slashes followed by nothing but whitespace
BlankAfterMarker(s) ==
    \E k \in 0..Len(s) :
        /\ \A i \in 1..k : s[i] = "/"
        /\ \A i \in (k + 1)..Len(s) : IsSpace(s[i])

\* C22: execute_command on a string that is empty after the leading command
\* marker is stripped (empty, only slashes, or only whitespace) returns the
\* fixed no-command message, calls no handler and does not raise
C22_BlankCommandIsNoCommand ==
    \A d \in dispatched :
        BlankAfterMarker(d.command_str) =>
            /\ last_dispatch.returned
            /\ last_dispatch.text = <<"N", "o", " ", "c", "o", "m", "m", "a", "n", "d", " ", "p", "r", "o", "v", "i", "d", "e", "d">>
            /\ last_dispatch.calls = <<>>

\* the slashes-only string was dispatched
C22_Witness ==
    /\ \E d \in dispatched : d.command_str = <<"/", "/">>
    /\ last_dispatch.text = <<"N", "o", " ", "c", "o", "m", "m", "a", "n", "d", " ", "p", "r", "o", "v", "i", "d", "e", "d">>
    /\ Len(commands) > 2

\* the value of a string of decimal digits
RECURSIVE DigitsValue(_)
DigitsValue(s) ==
    IF s = <<>> THEN 0
    ELSE 10 * DigitsValue(SubSeq(s, 1, Len(s) - 1))
         + ((CHOOSE i \in 1..10 : Digits[i] = s[Len(s)]) - 1)

SuccessText == <<"C", "o", "m", "m", "a", "n", "d", " ", "e", "x", "e", "c", "u", "t", "e", "d", " ", "s", "u", "c", "c", "e", "s", "s", "f", "u", "l", "l", "y", ".">>

\* C23: execute_command returns the string form of the handler's return value,
\* and the fixed success string exactly when the handler returns None
C23_ResultIsStringified ==
    \A d \in dispatched :
        (NamedRegistered(d) /\ last_dispatch.calls # <<>>) =>
            LET out == Call(Lookup(commands, Tokens(d)[1]).function,
                            last_dispatch.calls[1].kwargs, commands)
            IN  /\ out.kind = "none" => last_dispatch.text = SuccessText
                /\ out.kind = "value" =>
                       /\ last_dispatch.text = out.text
                       /\ last_dispatch.text # SuccessText
                /\ out.kind = "int" =>
                       /\ last_dispatch.text # <<>>
                       /\ \A i \in 1..Len(last_dispatch.text) :
                              InList(last_dispatch.text[i], Digits)
                       /\ DigitsValue(last_dispatch.text) = out.number
                       /\ last_dispatch.text # SuccessText

\* a function that returned the int 0 was dispatched and "0" came back
C23_Witness ==
    /\ \E d \in dispatched : d.command_str = <<"c", "o", "u", "n", "t">> /\ d.kwargs = EmptyDict
    /\ last_dispatch.calls # <<>>
    /\ last_dispatch.calls[1].function = "count_cmd"
    /\ last_dispatch.text = <<"0">>

\* the i-th parameter of info was supplied by the dispatch d
Supplied(d, info, i) ==
    IF d.kwargs = EmptyDict THEN i <= Len(Tokens(d)) - 1
    ELSE info.parameters[i].name \in DOMAIN d.kwargs

\* C29: the handler is always invoked with a subset of its declared parameter
\* names: positional arguments beyond the declared parameters are dropped,
\* keyword arguments that name no declared parameter are dropped, an optional
\* parameter that was not supplied and whose default is None is omitted, and
\* none of these cases produces an error string
C29_CallUsesDeclaredNames ==
    \A d \in dispatched :
        NamedRegistered(d) =>
            LET info == Lookup(commands, Tokens(d)[1])
                indices == 1..Len(info.parameters)
                names == { info.parameters[i].name : i \in indices }
                complete == \A i \in indices :
                                info.parameters[i].required => Supplied(d, info, i)
                dropping ==
                    \/ d.kwargs = EmptyDict /\ Len(Tokens(d)) - 1 > Len(info.parameters)
                    \/ \E k \in DOMAIN d.kwargs : k \notin names
                    \/ \E i \in indices : /\ ~info.parameters[i].required
                                          /\ info.parameters[i].default = {}
                                          /\ ~Supplied(d, info, i)
            IN  /\ \A c \in 1..Len(last_dispatch.calls) :
                       /\ DOMAIN last_dispatch.calls[c].kwargs \subseteq names
                       /\ \A i \in indices :
                              (/\ ~info.parameters[i].required
                               /\ info.parameters[i].default = {}
                               /\ ~Supplied(d, info, i)) =>
                                  info.parameters[i].name
                                      \notin DOMAIN last_dispatch.calls[c].kwargs
                /\ (dropping /\ complete) =>
                       /\ Len(last_dispatch.calls) = 1
                       /\ Call(info.function, last_dispatch.calls[1].kwargs,
                               commands).kind # "raise" =>
                              ~startswith(last_dispatch.text, ErrorPrefix)

\* analyze, with two parameters, was dispatched with three words and ran
C29_Witness ==
    /\ \E d \in dispatched : d.command_str = <<"a", "n", "a", "l", "y", "z", "e", " ", "x", " ", "g", "o", " ", "p", "y">> /\ d.kwargs = EmptyDict
    /\ last_dispatch.calls # <<>>
    /\ last_dispatch.text = <<"c", "o", "d", "e", "=", "x", ",", " ", "l", "a", "n", "g", "u", "a", "g", "e", "=", "g", "o">>

\* C24: when on_chain_end has discarded a decision that had been made, no call
\* that was in flight at that moment takes the reset state for an undecided new
\* batch: it is not waiting on an Unset decision, and it does not open a prompt
C24_ResetIsSynchronized ==
    consumed =>
        \A t \in stale :
            /\ ~(pc[t] = "wait" /\ user_approved = "None")
            /\ t \notin openers

\* C25: under fair scheduling a call that waits while the decision is recorded
\* terminates: it returns or raises
C25_WaitersTerminate ==
    \A t \in Threads :
        (pc[t] = "wait" /\ user_approved # "None") ~> (pc[t] \in {"returned", "raised"})

\* C26: while a decision is recorded and on_chain_end does not run, a gated
\* call that reaches the opener test does not become an opener (it renders no
\* prompt), and a call that leaves the wait returns if the decision is Approved
\* and raises if it is Denied
C26_DecisionIsSticky ==
    [][\A t \in Threads :
           (user_approved # "None" /\ user_approved' = user_approved) =>
               /\ pc[t] \in {"check_showing", "check_shown"} =>
                      pc'[t] \in {pc[t], "check_shown", "wait"}
               /\ (pc[t] = "decide" /\ pc'[t] # "decide") =>
                      pc'[t] = IF user_approved = "False" THEN "raised" ELSE "returned"]_vars

\* C27: the decision is set only while both flags are true; with both flags
\* false and nothing pending the decision is Unset
C27_DecisionImpliesFlags ==
    /\ user_approved # "None" => (showing_prompt /\ confirmation_shown)
    /\ (~showing_prompt /\ ~confirmation_shown /\ pending_tools = <<>>) =>
           user_approved = "None"

\* the list l without every x
Without(l, x) == SelectSeq(l, LAMBDA e : e # x)

NoDuplicate(l) == \A i, j \in 1..Len(l) : l[i] = l[j] => i = j

\* C28: //whitelist add of a listed entry and //whitelist remove of an entry
\* that is not listed return a message, change nothing and save nothing; a
\* successful add or remove changes the list by exactly that entry and saves
\* it; the list never holds a duplicate; an add followed by a remove of the
\* same entry gives back the list the add started from
C28_WhitelistAddRemove ==
    /\ [](NoDuplicate(agent_config["safe_commands"]))
    /\ []((/\ Len(list_log) = 2
           /\ list_log[1].op = <<"a", "d", "d">>
           /\ list_log[2].op = <<"r", "e", "m", "o", "v", "e">>
           /\ list_log[1].cmd = list_log[2].cmd) =>
              agent_config["safe_commands"] = list_log[1].before)
    /\ [][\A action \in WhitelistActions, cmd \in WhitelistCommands \ { <<>> } :
              (lower(action) \in { <<"a", "d", "d">>, <<"r", "e", "m", "o", "v", "e">> } /\ whitelist_cmd(action, cmd)) =>
                  LET old == agent_config["safe_commands"]
                      new == agent_config'["safe_commands"]
                      add == lower(action) = <<"a", "d", "d">>
                  IN  IF add = InList(cmd, old)
                      THEN /\ settings_out' \notin { "saved", "none" }
                           /\ agent_config' = agent_config
                           /\ config_file' = config_file
                           /\ safe_commands' = safe_commands
                      ELSE /\ Without(new, cmd) = Without(old, cmd)
                           /\ Len(new) = IF add THEN Len(old) + 1 ELSE Len(old) - 1
                           /\ InList(cmd, new) = add
                           /\ config_file' = agent_config'
                           /\ safe_commands' = new]_vars

\* 'ls' was added to the default list and removed again, and a second remove
\* was refused
C28_Witness ==
    /\ Len(list_log) = 2
    /\ list_log[1].op = <<"a", "d", "d">> /\ list_log[2].op = <<"r", "e", "m", "o", "v", "e">>
    /\ list_log[1].cmd = <<"l", "s">> /\ list_log[2].cmd = <<"l", "s">>
    /\ list_log[1].before = << <<"p", "w", "d">> >>
    /\ agent_config["safe_commands"] = << <<"p", "w", "d">> >>
    /\ config_file["safe_commands"] = << <<"p", "w", "d">> >>
    /\ settings_out = "error"

\* the last n entries of log, oldest first
MostRecent(log, n) ==
    LET k == Min(n, Len(log))
    IN  [i \in 1..k |-> log[Len(log) - k + i]]

\* self.history.get(id, [])
Held(h, id) == IF id \in DOMAIN h THEN h[id] ELSE <<>>

====
